---- MODULE Spec2Model ----
(***************************************************************************)
(* Model of logto_email_template: the reconciliation of local email        *)
(* templates with a Logto tenant (sync), the export of the remote          *)
(* templates to disk and the remote summary listing.                       *)
(*                                                                         *)
(* The repository holds four revisions of lib/emailTemplatesApi.js.  The   *)
(* variable `variant` selects the revision an invocation runs:             *)
(*   "bulk"   src/src/lib/emailTemplatesApi.js (one bulk PUT)              *)
(*   "single" src/unnamed/part_000 (per item, update = one batch PUT)      *)
(*   "chain"  src/unnamed/part_001 (per item, update = three strategies)   *)
(*   "simple" src/unnamed/part_002 (per item, update = PUT <base>/<id>)    *)
(* Every await of a request is one step of the model: a step performs the  *)
(* request, draws the gateway's answer and runs the code up to the next    *)
(* await.                                                                  *)
(***************************************************************************)
EXTENDS Integers, Sequences, FiniteSets, TLC

\* ---------------------------------------------------------------- bounds
MaxLocal == 2

\* ------------------------------------------------------------ data model
Procs == {1, 2}

Variants == {"bulk", "single", "chain", "simple"}

TemplateTypes == {"SignIn"}

LanguageTags == {"en", "zh-CN"}

\* Mutant: a single colon separates the two parts.
makeKeySingleColon(templateType, languageTag) == templateType \o ":" \o languageTag

\* `${templateType}::${languageTag}`
makeKey(templateType, languageTag) == templateType \o "::" \o languageTag

KeyPairs == TemplateTypes \X LanguageTags

Keys == {makeKey(kp[1], kp[2]) : kp \in KeyPairs}

\* Texts are sequences of characters.  details.replyTo / sendFrom /
\* contentType = "" stand for an absent field.
DetailsA ==
  [subject |-> <<"H", "i">>, content |-> <<"<", "p", ">">>,
   contentType |-> "text/html", replyTo |-> "", sendFrom |-> ""]

DetailsB ==
  [subject |-> <<"Y", "o">>, content |-> <<"b">>,
   contentType |-> "text/plain", replyTo |-> "r@x", sendFrom |-> ""]

NoDetails ==
  [subject |-> <<>>, content |-> <<>>, contentType |-> "", replyTo |-> "",
   sendFrom |-> ""]

\* Details with none of contentType, replyTo and sendFrom.
DetailsD ==
  [subject |-> <<"S">>, content |-> <<"d", " ">>,
   contentType |-> "", replyTo |-> "", sendFrom |-> ""]

\* Details a remote template is edited to before an export.
EditedDetailsSet == {DetailsA, DetailsB, DetailsD}

DetailsC ==
  [subject |-> <<"O", "l", "d", " ">>, content |-> <<"c", "\n", "\n">>,
   contentType |-> "", replyTo |-> "", sendFrom |-> "s@x"]

\* Details of the remote templates before a run.
RemoteDetailsSet == {DetailsC}

RECURSIVE SeqsUpTo(_, _)
SeqsUpTo(S, n) ==
  IF n = 0 THEN {<<>>}
  ELSE LET shorter == SeqsUpTo(S, n - 1)
       IN  shorter \cup {Append(s, x) : s \in {t \in shorter : Len(t) = n - 1}, x \in S}

\* The local lists: any keys, duplicates included; the details alternate
\* with the position, so two templates of one key differ.
DetailsAt(i) == IF i % 2 = 1 THEN DetailsA ELSE DetailsB

LocalLists ==
  {[i \in 1..Len(ks) |->
      [templateType |-> ks[i][1], languageTag |-> ks[i][2], details |-> DetailsAt(i)]] :
     ks \in SeqsUpTo(KeyPairs, MaxLocal)}

\* A remote template; id = 0 is "no id field", empty strings are absent fields.
NoEntry == [id |-> 0, templateType |-> "", languageTag |-> "", details |-> NoDetails]

KeyOrder == <<"SignIn", "en">> :> 1 @@ <<"SignIn", "zh-CN">> :> 2

IdOf(templateType, languageTag) == KeyOrder[<<templateType, languageTag>>]

RemoteEntries(kp) ==
  [id : {0, IdOf(kp[1], kp[2])}, templateType : {kp[1]}, languageTag : {kp[2]},
   details : RemoteDetailsSet]

Stores == {s \in [KeyPairs -> [id : 0..2, templateType : TemplateTypes \cup {""},
                               languageTag : LanguageTags \cup {""},
                               details : RemoteDetailsSet \cup {NoDetails}]] :
             \A kp \in KeyPairs : s[kp] = NoEntry \/ s[kp] \in RemoteEntries(kp)}

\* The listing the remote service returns: its entries in a fixed order.
RECURSIVE ListingFrom(_, _)
ListingFrom(store, n) ==
  IF n > Cardinality(KeyPairs) THEN <<>>
  ELSE LET kp == CHOOSE k \in KeyPairs : KeyOrder[k] = n
       IN  (IF store[kp] = NoEntry THEN <<>> ELSE <<store[kp]>>)
             \o ListingFrom(store, n + 1)

ListingOf(store) == ListingFrom(store, 1)

\* ------------------------------------------------- responses of the client
\* A JSON object of a response body.  err: it has an error, code or message
\* field; other: it has some other field.
ToObj(e) ==
  [id |-> e.id, templateType |-> e.templateType, languageTag |-> e.languageTag,
   details |-> e.details, err |-> FALSE, other |-> FALSE]

ToEntry(o) ==
  [id |-> o.id, templateType |-> o.templateType, languageTag |-> o.languageTag,
   details |-> o.details]

EmptyObj == ToObj(NoEntry)

ErrorObj == [EmptyObj EXCEPT !.err = TRUE]

OtherObj == [EmptyObj EXCEPT !.other = TRUE]

\* The response object itself, which `response.data || response` yields when
\* data is absent: no id, no templateType, possibly an error field.
Wrapper(error) == [EmptyObj EXCEPT !.other = TRUE, !.err = error]

AbsentBody == [shape |-> "absent", elems |-> <<>>]

ObjectBody(o) == [shape |-> "object", elems |-> <<o>>]

ArrayBody(os) == [shape |-> "array", elems |-> os]

StringBody == [shape |-> "string", elems |-> <<>>]

\* An answer of apiClient.GET/PUT/PATCH: a thrown error carrying a status, or
\* a returned object with a status (0: none), data (body) and, for a client
\* that reports failures without throwing, an error field.
Thrown(status) ==
  [thrown |-> TRUE, status |-> status, body |-> AbsentBody, error |-> FALSE]

Answer(status, body) ==
  [thrown |-> FALSE, status |-> status, body |-> body, error |-> FALSE]

Refusal(status) ==
  [thrown |-> FALSE, status |-> status, body |-> AbsentBody, error |-> TRUE]

\* Statuses an error of the client carries.
ErrorStatuses == {404, 405, 500}

\* response.data || response
ResultOf(resp) ==
  IF resp.body.shape = "absent" THEN ObjectBody(Wrapper(resp.error)) ELSE resp.body

MapSeq(s, F(_)) == [i \in 1..Len(s) |-> F(s[i])]

\* The fields exportEmailTemplates requires of a remote entry.
RequiredFields == {"templateType", "languageTag", "details"}

\* The entry without one of its fields.
Without(e, field) ==
  CASE field = "templateType" -> [e EXCEPT !.templateType = ""]
    [] field = "languageTag"  -> [e EXCEPT !.languageTag = ""]
    [] OTHER                  -> [e EXCEPT !.details = NoDetails]

\* The listings in which one entry of the service's listing lacks one field.
MalformedListings(store) ==
  LET listing == ListingOf(store)
  IN  {[i \in 1..Len(listing) |->
          IF i = j THEN Without(listing[i], f) ELSE listing[i]] :
         j \in 1..Len(listing), f \in RequiredFields}

\* What the service may answer to GET <base>.
ListResponses(store) ==
  {Thrown(st) : st \in ErrorStatuses}
    \cup {Refusal(500),
          Answer(200, ArrayBody(MapSeq(ListingOf(store), ToObj))),
          Answer(200, AbsentBody),
          Answer(200, ObjectBody(OtherObj))}

\* What the service may answer to the GET of exportEmailTemplates: the same,
\* and the listings with an entry that lacks a field.
ExportListResponses(store) ==
  ListResponses(store)
    \cup {Answer(200, ArrayBody(MapSeq(l, ToObj))) : l \in MalformedListings(store)}

\* --------------------------------------------------------- listing, index
\* Mutant: only 404 is taken as "no list endpoint".
listEmailTemplatesOnly404(resp) ==
  IF resp.thrown
    THEN IF resp.status = 404
           THEN [thrown |-> FALSE, isArray |-> FALSE, list |-> <<>>]
           ELSE [thrown |-> TRUE, isArray |-> FALSE, list |-> <<>>]
    ELSE IF resp.body.shape = "array"
           THEN [thrown |-> FALSE, isArray |-> TRUE,
                 list |-> MapSeq(resp.body.elems, ToEntry)]
           ELSE [thrown |-> FALSE, isArray |-> FALSE, list |-> <<>>]

\* Mutant: a missing list endpoint yields an empty array instead of null.
listEmailTemplatesEmptyOn404(resp) ==
  IF resp.thrown
    THEN IF resp.status = 404 \/ resp.status = 405
           THEN [thrown |-> FALSE, isArray |-> TRUE, list |-> <<>>]
           ELSE [thrown |-> TRUE, isArray |-> FALSE, list |-> <<>>]
    ELSE IF resp.body.shape = "array"
           THEN [thrown |-> FALSE, isArray |-> TRUE,
                 list |-> MapSeq(resp.body.elems, ToEntry)]
           ELSE [thrown |-> FALSE, isArray |-> FALSE, list |-> <<>>]

\* Mutant: a body that is not an array is an error of the listing.
listEmailTemplatesThrowsOnNull(resp) ==
  IF resp.thrown
    THEN IF resp.status = 404 \/ resp.status = 405
           THEN [thrown |-> FALSE, isArray |-> FALSE, list |-> <<>>]
           ELSE [thrown |-> TRUE, isArray |-> FALSE, list |-> <<>>]
    ELSE IF resp.body.shape = "array"
           THEN [thrown |-> FALSE, isArray |-> TRUE,
                 list |-> MapSeq(resp.body.elems, ToEntry)]
           ELSE [thrown |-> TRUE, isArray |-> FALSE, list |-> <<>>]

\* Mutant: an object that wraps the list is taken for an (empty) array.
listEmailTemplatesUnwraps(resp) ==
  IF resp.thrown
    THEN IF resp.status = 404 \/ resp.status = 405
           THEN [thrown |-> FALSE, isArray |-> FALSE, list |-> <<>>]
           ELSE [thrown |-> TRUE, isArray |-> FALSE, list |-> <<>>]
    ELSE IF resp.body.shape = "array"
           THEN [thrown |-> FALSE, isArray |-> TRUE,
                 list |-> MapSeq(resp.body.elems, ToEntry)]
           ELSE [thrown |-> FALSE, isArray |-> resp.body.shape = "object",
                 list |-> <<>>]

\* listEmailTemplates: the array, null (isArray = FALSE), or a thrown error.
listEmailTemplates(resp) ==
  IF resp.thrown
    THEN IF resp.status = 404 \/ resp.status = 405
           THEN [thrown |-> FALSE, isArray |-> FALSE, list |-> <<>>]
           ELSE [thrown |-> TRUE, isArray |-> FALSE, list |-> <<>>]
    ELSE IF resp.body.shape = "array"
           THEN [thrown |-> FALSE, isArray |-> TRUE,
                 list |-> MapSeq(resp.body.elems, ToEntry)]
           ELSE [thrown |-> FALSE, isArray |-> FALSE, list |-> <<>>]

EmptyIndex == [k \in Keys |-> NoEntry]

\* The loop that fills remoteIndex: entries without templateType or
\* languageTag are skipped, a later entry replaces an earlier one of its key.
RECURSIVE IndexFrom(_, _, _)
IndexFrom(list, n, index) ==
  IF n > Len(list) THEN index
  ELSE LET t == list[n]
       IN  IF t.templateType = "" \/ t.languageTag = ""
             THEN IndexFrom(list, n + 1, index)
             ELSE IndexFrom(list, n + 1,
                    [index EXCEPT ![makeKey(t.templateType, t.languageTag)] = t])

BuildIndex(listed) ==
  IF listed.isArray THEN IndexFrom(listed.list, 1, EmptyIndex) ELSE EmptyIndex

KeyOfLocal(local) == makeKey(local.templateType, local.languageTag)

\* Mutant: an entry of the index without an id counts as missing.
ExistingWithId(hasIndex, index, local) ==
  IF hasIndex /\ index[KeyOfLocal(local)].id # 0
    THEN index[KeyOfLocal(local)]
    ELSE NoEntry

\* hasRemoteIndex ? remoteIndex.get(key) : null
Existing(hasIndex, index, local) ==
  IF hasIndex THEN index[KeyOfLocal(local)] ELSE NoEntry

\* Mutant: tests existing?.id where the code tests existing.
ActionOfById(hasIndex, index, local) ==
  IF hasIndex
    THEN IF Existing(hasIndex, index, local).id # 0 THEN "update" ELSE "create"
    ELSE "upsert"

\* hasRemoteIndex ? (existing ? "update" : "create") : "upsert"
ActionOf(hasIndex, index, local) ==
  IF hasIndex
    THEN IF Existing(hasIndex, index, local) # NoEntry THEN "update" ELSE "create"
    ELSE "upsert"

\* A result as the planning loop pushes it (no request made for it).
PlannedResult(hasIndex, index, local, dry) ==
  [action |-> ActionOf(hasIndex, index, local),
   key    |-> KeyOfLocal(local),
   local  |-> local,
   remote |-> Existing(hasIndex, index, local),
   dryRun |-> dry,
   method |-> ""]

\* Mutant: request.method is always "PUT".
WrittenResultAlwaysPut(action, local, remote, method) ==
  [action |-> action, key |-> KeyOfLocal(local), local |-> local,
   remote |-> remote, dryRun |-> "absent", method |-> "PUT"]

\* A result of a per-item write; these carry no dryRun field.
WrittenResult(action, local, remote, method) ==
  [action |-> action, key |-> KeyOfLocal(local), local |-> local,
   remote |-> remote, dryRun |-> "absent", method |-> method]

\* Mutant: the language tag of the payload is a fixed default.
fullTemplateDefaultLanguage(local) ==
  [id |-> 0, templateType |-> local.templateType,
   languageTag |-> "en", details |-> local.details]

\* { languageTag, templateType, details } of a local template.
fullTemplate(local) ==
  [id |-> 0, templateType |-> local.templateType,
   languageTag |-> local.languageTag, details |-> local.details]

\* result.id || result.templateType
Recognised(o) == o.id # 0 \/ o.templateType # ""

\* ------------------------------------------------------ the remote service
\* Mutant: the service keeps the details of an entry it already has.
UpsertFirstWins(store, t) ==
  LET kp == <<t.templateType, t.languageTag>>
  IN  [store EXCEPT ![kp] =
         IF store[kp] = NoEntry
           THEN [id |-> IdOf(kp[1], kp[2]), templateType |-> kp[1],
                 languageTag |-> kp[2], details |-> t.details]
           ELSE store[kp]]

\* The service creates or replaces by (templateType, languageTag); an entry
\* keeps its id, a new entry is given one.
Upsert(store, t) ==
  LET kp == <<t.templateType, t.languageTag>>
  IN  [store EXCEPT ![kp] =
         [id |-> IF store[kp] = NoEntry THEN IdOf(kp[1], kp[2]) ELSE store[kp].id,
          templateType |-> kp[1], languageTag |-> kp[2], details |-> t.details]]

RECURSIVE UpsertAll(_, _, _)
UpsertAll(store, templates, n) ==
  IF n > Len(templates) THEN store
  ELSE UpsertAll(Upsert(store, templates[n]), templates, n + 1)

\* A write to <base>/<id> replaces the details of the entry with that id.
ReplaceById(store, id, t) ==
  [kp \in KeyPairs |->
     IF store[kp] # NoEntry /\ store[kp].id = id
       THEN [store[kp] EXCEPT !.details = t.details]
       ELSE store[kp]]

\* A request: url is "base" (<base>) or "item" (<base>/<id>), body is "none",
\* "batch" ({templates: [...]}) or "bare" (the template itself).
Request(method, url, id, body, templates) ==
  [method |-> method, url |-> url, id |-> id, body |-> body, templates |-> templates]

\* The store once the service has applied the request.
Effect(store, req) ==
  IF req.method = "GET" THEN store
  ELSE IF req.url = "item" THEN ReplaceById(store, req.id, req.templates[1])
  ELSE UpsertAll(store, req.templates, 1)

\* The entries a request wrote, as the service echoes them.
Echo(after, req) ==
  IF req.url = "item"
    THEN LET hit == {kp \in KeyPairs : after[kp] # NoEntry /\ after[kp].id = req.id}
         IN  IF hit = {} THEN <<>> ELSE <<ToObj(after[CHOOSE kp \in hit : TRUE])>>
    ELSE [i \in 1..Len(req.templates) |->
            ToObj(after[<<req.templates[i].templateType, req.templates[i].languageTag>>])]

\* Bodies the service may send with a success status for a write.
WriteBodies(echo) ==
  {ArrayBody(echo), ArrayBody(<<>>), AbsentBody, StringBody,
   ObjectBody(EmptyObj), ObjectBody(OtherObj), ObjectBody(ErrorObj)}
    \cup (IF echo = <<>> THEN {}
          ELSE {ObjectBody(echo[1]),
                ObjectBody([echo[1] EXCEPT !.id = 0]),
                ObjectBody([EmptyObj EXCEPT !.languageTag = echo[1].languageTag]),
                ObjectBody([echo[1] EXCEPT !.err = TRUE]),
                ArrayBody(<<OtherObj>>)})

\* What the service may answer to a PUT or PATCH.
WriteResponses(echo) ==
  {Thrown(st) : st \in ErrorStatuses}
    \cup {Refusal(500)}
    \cup {Answer(200, b) : b \in WriteBodies(echo)}

\* The kind of body an answer carries: "templates" (a non-empty array of
\* template-like objects), "template" (one template-like object), "emptyArray",
\* "otherArray" (an array with an element that is not template-like),
\* "emptyObject", "absent", "error" (an object with an error, code or message
\* field), "other"; "none" for a thrown error.
BodyClass(resp) ==
  LET b == resp.body
  IN  IF resp.thrown THEN "none"
      ELSE IF b.shape = "absent" THEN "absent"
      ELSE IF b.shape = "array"
        THEN IF Len(b.elems) = 0 THEN "emptyArray"
             ELSE IF \A i \in 1..Len(b.elems) : Recognised(b.elems[i]) /\ ~b.elems[i].err
               THEN "templates"
             ELSE "otherArray"
      ELSE IF b.shape = "object"
        THEN IF b.elems[1].err THEN "error"
             ELSE IF Recognised(b.elems[1]) THEN "template"
             ELSE IF b.elems[1] = EmptyObj THEN "emptyObject"
             ELSE "other"
      ELSE "other"

IsErrorBody(body) ==
  body.shape = "object" /\ body.elems[1].err

\* The service applies a write exactly when it answers with success.
Applied(resp) ==
  ~resp.thrown /\ resp.status < 400 /\ ~resp.error /\ ~IsErrorBody(resp.body)

\* ------------------------------------------------- the single-item writes
\* The outcome of one request strategy: "ok" (return ok: true), "next" (fall
\* through to the code after the try), "fail" (return ok: false at once);
\* pushed: an errorInfo was recorded for the request.
Ok(method, response) ==
  [outcome |-> "ok", method |-> method, response |-> response, pushed |-> FALSE]

Next_(pushed) ==
  [outcome |-> "next", method |-> "", response |-> EmptyObj, pushed |-> pushed]

Fail(pushed) ==
  [outcome |-> "fail", method |-> "", response |-> EmptyObj, pushed |-> pushed]

\* Mutant: the three-strategy revision sends the PATCH second, the batch last.
UpdateRequestPatchSecond(v, strat, id, local) ==
  IF v = "single"
    THEN Request("PUT", "base", 0, "batch", <<[fullTemplate(local) EXCEPT !.id = id]>>)
  ELSE IF v = "simple"
    THEN Request("PUT", "item", id, "bare", <<fullTemplate(local)>>)
  ELSE IF strat = 1
    THEN Request("PUT", "item", id, "bare", <<fullTemplate(local)>>)
  ELSE IF strat = 2
    THEN Request("PATCH", "item", id, "bare", <<fullTemplate(local)>>)
  ELSE Request("PUT", "base", 0, "batch", <<fullTemplate(local)>>)

\* The requests of tryUpdateById, per revision and position in the chain.
UpdateRequest(v, strat, id, local) ==
  IF v = "single"
    THEN Request("PUT", "base", 0, "batch", <<[fullTemplate(local) EXCEPT !.id = id]>>)
  ELSE IF v = "simple"
    THEN Request("PUT", "item", id, "bare", <<fullTemplate(local)>>)
  ELSE IF strat = 1
    THEN Request("PUT", "item", id, "bare", <<fullTemplate(local)>>)
  ELSE IF strat = 2
    THEN Request("PUT", "base", 0, "batch", <<fullTemplate(local)>>)
  ELSE Request("PATCH", "item", id, "bare", <<fullTemplate(local)>>)

UpdateStrategies(v) == IF v = "chain" THEN 3 ELSE 1

\* The requests of tryCreate.
CreateRequest(v, strat, local) ==
  IF strat = 1
    THEN Request("PUT", "base", 0, "batch", <<fullTemplate(local)>>)
    ELSE Request("PUT", "base", 0, "bare", <<fullTemplate(local)>>)

CreateStrategies(v) == IF v = "chain" THEN 2 ELSE 1

\* part_000: one batch PUT carrying the id; lenient about the body.
tryUpdateByIdSingle(local, resp) ==
  IF resp.thrown \/ resp.status >= 400 THEN Fail(TRUE)
  ELSE LET r == ResultOf(resp)
           isObj == r.shape = "object"
           isArr == r.shape = "array"
           template == IF Len(r.elems) > 0 THEN r.elems[1] ELSE EmptyObj
       IN  IF (isObj \/ isArr) /\ Len(r.elems) > 0 /\ Recognised(template)
             THEN Ok("PUT", template)
           ELSE IF (isObj /\ template = EmptyObj) \/ (isArr /\ Len(r.elems) = 0)
             THEN Ok("PUT", ToObj(fullTemplate(local)))
           ELSE IF isObj /\ template.err THEN Fail(TRUE)
           ELSE IF isObj \/ isArr THEN Ok("PUT", template)
           ELSE Fail(TRUE)

\* part_002: one PUT to <base>/<id>; the body must be a recognised object.
tryUpdateByIdSimple(resp) ==
  IF resp.thrown THEN Fail(TRUE)
  ELSE LET r == ResultOf(resp)
       IN  IF r.shape = "object" /\ Recognised(r.elems[1])
             THEN Ok("PUT", r.elems[1])
             ELSE Fail(TRUE)

\* Array.isArray(result) ? result.find(t => t.id === id) || result[0] : result
PickTemplate(r, id) ==
  IF r.shape = "array"
    THEN IF \E i \in 1..Len(r.elems) : r.elems[i].id = id
           THEN r.elems[CHOOSE i \in 1..Len(r.elems) :
                          /\ r.elems[i].id = id
                          /\ \A j \in 1..(i - 1) : r.elems[j].id # id]
         ELSE IF Len(r.elems) > 0 THEN r.elems[1] ELSE EmptyObj
  ELSE IF r.shape = "object" THEN r.elems[1]
  ELSE EmptyObj

\* part_001: strategy A (PUT <base>/<id>), B (batch PUT), C (PATCH <base>/<id>).
tryUpdateByIdChain(strat, id, resp) ==
  LET r == ResultOf(resp)
  IN  IF strat = 1
        THEN IF resp.thrown
               THEN IF resp.status # 404 /\ resp.status # 405
                      THEN Fail(TRUE) ELSE Next_(TRUE)
             ELSE IF r.shape = "object" /\ Recognised(r.elems[1])
               THEN Ok("PUT", r.elems[1])
             ELSE Next_(FALSE)
      ELSE IF strat = 2
        THEN IF resp.thrown THEN Next_(TRUE)
             ELSE IF Recognised(PickTemplate(r, id))
               THEN Ok("PUT (batch)", PickTemplate(r, id))
             ELSE Next_(FALSE)
      ELSE IF resp.thrown THEN Next_(TRUE)
           ELSE IF r.shape = "object" /\ Recognised(r.elems[1])
             THEN Ok("PATCH", r.elems[1])
           ELSE Next_(FALSE)

tryUpdateById(v, strat, id, local, resp) ==
  IF v = "single" THEN tryUpdateByIdSingle(local, resp)
  ELSE IF v = "simple" THEN tryUpdateByIdSimple(resp)
  ELSE tryUpdateByIdChain(strat, id, resp)

\* The body test of tryCreate's batch PUT, the same in every revision.
CreateRecognised(r) ==
  \/ r.shape = "array" /\ Len(r.elems) > 0 /\ Recognised(r.elems[1])
  \/ r.shape = "object"
       /\ (Recognised(r.elems[1]) \/ r.elems[1].languageTag # "")

\* part_000 and part_002: one batch PUT.
tryCreateOnce(resp) ==
  IF resp.thrown THEN Fail(TRUE)
  ELSE IF CreateRecognised(ResultOf(resp))
    THEN Ok("PUT", ResultOf(resp).elems[1])
  ELSE Fail(TRUE)

\* part_001: strategy A (batch PUT), then B (PUT of the bare template).
tryCreateChain(strat, resp) ==
  LET r == ResultOf(resp)
  IN  IF resp.thrown THEN Next_(TRUE)
      ELSE IF strat = 1
        THEN IF CreateRecognised(r) THEN Ok("PUT (batch)", r.elems[1])
             ELSE Next_(resp.error)
      ELSE IF r.shape = "object" /\ Recognised(r.elems[1])
        THEN Ok("PUT", r.elems[1])
      ELSE Next_(resp.error)

tryCreate(v, strat, resp) ==
  IF v = "chain" THEN tryCreateChain(strat, resp) ELSE tryCreateOnce(resp)

\* ---------------------------------------------------- the output directory
Whitespace == {" ", "\n", "\t"}

\* String.prototype.trimEnd
RECURSIVE trimEnd(_)
trimEnd(s) ==
  IF Len(s) > 0 /\ s[Len(s)] \in Whitespace
    THEN trimEnd(SubSeq(s, 1, Len(s) - 1))
    ELSE s

\* A file: absent, or its text.
NoFile == [exists |-> FALSE, text |-> <<>>]

File(text) == [exists |-> TRUE, text |-> text]

\* meta.json: absent, or the object written ("" is an absent field).
NoMeta ==
  [exists |-> FALSE, replyTo |-> "", sendFrom |-> "", contentType |-> ""]

\* <outDir>/<templateType>/<languageTag>/
NoDir ==
  [exists |-> FALSE, subject |-> NoFile, html |-> NoFile, txt |-> NoFile,
   meta |-> NoMeta]

EmptyFs == [root |-> FALSE, dirs |-> [kp \in KeyPairs |-> NoDir]]

\* --------------------------------------------------- the output directory
\* A path: absolute or relative to the working directory, and its segments.
NoPath == [absolute |-> FALSE, segments |-> <<>>]

\* process.cwd()
Cwd == <<"home", "u">>

\* Values of params.outDir.
OutDirs ==
  {[absolute |-> FALSE, segments |-> <<"out">>],
   [absolute |-> FALSE, segments |-> <<".", "out">>],
   [absolute |-> FALSE, segments |-> <<"..", "out">>],
   [absolute |-> TRUE,  segments |-> <<"srv", ".", "out">>]}

\* The segments with "." dropped and ".." taken with the segment before it.
RECURSIVE Normalised(_, _)
Normalised(segments, done) ==
  IF segments = <<>> THEN done
  ELSE LET seg  == Head(segments)
           rest == Tail(segments)
       IN  IF seg = "." THEN Normalised(rest, done)
           ELSE IF seg = ".."
             THEN Normalised(rest, IF done = <<>> THEN done
                                   ELSE SubSeq(done, 1, Len(done) - 1))
           ELSE Normalised(rest, Append(done, seg))

\* path.resolve(outDir)
resolve(path) ==
  [absolute |-> TRUE,
   segments |-> Normalised(IF path.absolute THEN path.segments
                           ELSE Cwd \o path.segments, <<>>)]

\* Mutant: the count of the entries written.
ExportCountWritten(remoteTemplates) ==
  Cardinality({i \in 1..Len(remoteTemplates) :
                 /\ remoteTemplates[i].templateType # ""
                 /\ remoteTemplates[i].languageTag # ""
                 /\ remoteTemplates[i].details # NoDetails})

\* count: remoteTemplates.length
ExportCount(remoteTemplates) == Len(remoteTemplates)

\* Mutant: only an entry without templateType or languageTag is skipped.
SkippedWithoutKey(t) == t.templateType = "" \/ t.languageTag = ""

\* if (!templateType || !languageTag || !details) continue
Skipped(t) == t.templateType = "" \/ t.languageTag = "" \/ t.details = NoDetails

\* Mutant: the content always goes to content.html.
ExportOneAlwaysHtml(dir, details) ==
  LET hasMeta == details.replyTo # "" \/ details.sendFrom # ""
                   \/ details.contentType # ""
  IN  [exists  |-> TRUE,
       subject |-> File(Append(trimEnd(details.subject), "\n")),
       html    |-> File(Append(trimEnd(details.content), "\n")),
       txt     |-> dir.txt,
       meta    |-> IF hasMeta
                     THEN [exists |-> TRUE, replyTo |-> details.replyTo,
                           sendFrom |-> details.sendFrom,
                           contentType |-> details.contentType]
                     ELSE dir.meta]

\* The body of the export loop for one remote template with all three of
\* templateType, languageTag and details.
ExportOne(dir, details) ==
  LET subjectText == Append(trimEnd(details.subject), "\n")
      contentText == Append(trimEnd(details.content), "\n")
      plain       == details.contentType = "text/plain"
      hasMeta     == details.replyTo # "" \/ details.sendFrom # ""
                       \/ details.contentType # ""
  IN  [exists  |-> TRUE,
       subject |-> File(subjectText),
       html    |-> IF plain THEN dir.html ELSE File(contentText),
       txt     |-> IF plain THEN File(contentText) ELSE dir.txt,
       meta    |-> IF hasMeta
                     THEN [exists |-> TRUE, replyTo |-> details.replyTo,
                           sendFrom |-> details.sendFrom,
                           contentType |-> details.contentType]
                     ELSE dir.meta]

\* ------------------------------------------------- loadLocalEmailTemplates
\* content.replace(/\s+$/, '\n').trimEnd()
readText(text) ==
  trimEnd(IF Len(text) > 0 /\ text[Len(text)] \in Whitespace
            THEN Append(trimEnd(text), "\n")
            ELSE text)

\* "" stands for undefined.
inferContentTypeByFilename(filename) ==
  IF filename = "content.txt" THEN "text/plain"
  ELSE IF filename = "content.html" THEN "text/html"
  ELSE ""

\* The template loadLocalEmailTemplates makes of the directory
\* <templateType>/<languageTag>; ok = FALSE: it throws "Missing ...".
loadLocalEmailTemplate(kp, dir) ==
  LET hasHtml     == dir.html.exists
      hasTxt      == dir.txt.exists
      contentFile == IF hasHtml THEN dir.html ELSE dir.txt
      contentName == IF hasHtml THEN "content.html" ELSE "content.txt"
      meta        == IF dir.meta.exists THEN dir.meta ELSE NoMeta
  IN  IF ~dir.subject.exists \/ (~hasHtml /\ ~hasTxt)
        THEN [ok |-> FALSE, templateType |-> kp[1], languageTag |-> kp[2],
              details |-> NoDetails]
        ELSE [ok |-> TRUE, templateType |-> kp[1], languageTag |-> kp[2],
              details |->
                [subject     |-> readText(dir.subject.text),
                 content     |-> readText(contentFile.text),
                 contentType |-> IF meta.contentType # "" THEN meta.contentType
                                 ELSE inferContentTypeByFilename(contentName),
                 replyTo     |-> meta.replyTo,
                 sendFrom    |-> meta.sendFrom]]

\* --only / --languages: null (set = FALSE) or a Set of names.
NoFilter == [set |-> FALSE, names |-> {}]

Filter(names) == [set |-> TRUE, names |-> names]

\* if (only && !only.has(name)) continue
Passes(filter, name) == ~filter.set \/ name \in filter.names

\* loadLocalEmailTemplates from the n-th directory on, in the order of
\* readdir: a directory the filters exclude is passed over before its files
\* are looked at; the first directory without subject.txt or without a
\* content file throws, naming it (at).
RECURSIVE LoadFrom(_, _, _, _, _)
LoadFrom(dirs, only, languages, n, templates) ==
  IF n > Cardinality(KeyPairs)
    THEN [thrown |-> FALSE, error |-> "none", at |-> 0, templates |-> templates]
  ELSE LET kp  == CHOOSE k \in KeyPairs : KeyOrder[k] = n
           one == loadLocalEmailTemplate(kp, dirs[kp])
       IN  IF ~dirs[kp].exists \/ ~Passes(only, kp[1]) \/ ~Passes(languages, kp[2])
             THEN LoadFrom(dirs, only, languages, n + 1, templates)
           ELSE IF ~one.ok
             THEN [thrown |-> TRUE,
                   error |-> IF ~dirs[kp].subject.exists THEN "missingSubject"
                             ELSE "missingContent",
                   at |-> n, templates |-> <<>>]
           ELSE LoadFrom(dirs, only, languages, n + 1,
                         Append(templates,
                                [templateType |-> one.templateType,
                                 languageTag |-> one.languageTag,
                                 details |-> one.details]))

\* loadLocalEmailTemplates(templatesDir, {onlyTypes, onlyLanguages}); readdir
\* of a directory that does not exist throws.
loadLocalEmailTemplates(dir, only, languages) ==
  IF ~dir.root
    THEN [thrown |-> TRUE, error |-> "noDirectory", at |-> 0, templates |-> <<>>]
    ELSE LoadFrom(dir.dirs, only, languages, 1, <<>>)

\* The template directories a local store may hold.
LocalDirs ==
  {NoDir} \cup
  [exists  : {TRUE},
   subject : {NoFile, File(<<"H", "i", "\n">>)},
   html    : {NoFile, File(<<"<", "p", ">", "\n">>)},
   txt     : {NoFile, File(<<"b", " ", "\n">>)},
   meta    : {NoMeta,
              [exists |-> TRUE, replyTo |-> "", sendFrom |-> "",
               contentType |-> "text/html"],
              [exists |-> TRUE, replyTo |-> "r@x", sendFrom |-> "",
               contentType |-> ""]}]

\* The local stores.
LocalStores == [root : BOOLEAN, dirs : [KeyPairs -> LocalDirs]]

\* An element of listEmailTemplatesSummary's result.
Summarise(t) ==
  [id |-> t.id, templateType |-> t.templateType, languageTag |-> t.languageTag,
   subject |-> t.details.subject,
   contentType |-> IF t.details.contentType = "" THEN "text/html"
                   ELSE t.details.contentType,
   hasContent |-> t.details.content # <<>>,
   contentLength |-> Len(t.details.content),
   replyTo |-> t.details.replyTo, sendFrom |-> t.details.sendFrom]

\* ------------------------------------------------------------------ state
VARIABLES
  variant,          \* the revision of emailTemplatesApi.js that runs
  store,            \* the remote service's templates
  lastReq,          \* per invocation: its latest request, with the answer
  op,               \* per invocation: "sync", "export", "list" or "none"
  dryRun,           \* per invocation: params.dryRun
  localTemplates,   \* per invocation: params.localTemplates
  pc,               \* per invocation: the await it is suspended at
  hasRemoteIndex,   \* per invocation: Array.isArray(remoteTemplates)
  remoteIndex,      \* per invocation: the Map key -> remote template
  results,          \* per invocation: the results array
  idx,              \* per invocation: position of the for loop (1-based)
  strat,            \* per invocation: position in the strategy chain
  errors,           \* per invocation: the errors array of the try* call
  attempts,         \* per invocation: the answers to the requests of the
                    \* latest try* call, in the order they were issued
  failure,          \* per invocation: the error thrown to the caller
  remoteTemplates,  \* per invocation of export: the listed array
  exportCount,      \* per invocation of export: the returned count (-1: none)
  outDir,           \* per invocation of export: params.outDir
  returnedDir,      \* per invocation of export: the returned outDir
  summary,          \* per invocation of list: the returned summaries
  fs,               \* the output directory of export
  firstRun,         \* per invocation: what an earlier sync of the same local
                    \* templates returned and left on the remote side
  unapplied,        \* per invocation: the code took for a success the answer
                    \* to a write that the service did not apply
  cli               \* the run of cli.js that makes invocation 1: its command
                    \* line, environment, position in main and exit code

exportVars ==
  <<remoteTemplates, exportCount, outDir, returnedDir, summary, fs, firstRun, cli>>

vars ==
  <<variant, store, lastReq, op, dryRun, localTemplates, pc, hasRemoteIndex,
    remoteIndex, results, idx, strat, errors, attempts, failure,
    remoteTemplates, exportCount, outDir, returnedDir, summary, fs, firstRun,
    unapplied, cli>>

\* --------------------------------------------------------------- cli.js
\* process.env after loadDotenv: LOGTO_ENDPOINT ("" is unset, "logto.app"
\* is https://<tenant>.logto.app, "custom" another host) and whether
\* LOGTO_TENANT_ID, LOGTO_M2M_CLIENT_ID, LOGTO_M2M_CLIENT_SECRET are set.
Envs ==
  [endpoint : {"", "logto.app", "custom"}, tenantId : BOOLEAN,
   clientId : BOOLEAN, clientSecret : BOOLEAN]

NoEnv == [endpoint |-> "", tenantId |-> FALSE, clientId |-> FALSE,
          clientSecret |-> FALSE]

\* No run of cli.js: the functions are called directly.
NoCli ==
  [command |-> "none", env |-> NoEnv, only |-> NoFilter, languages |-> NoFilter,
   dryRun |-> FALSE, pc |-> "none", exit |-> -1, tokens |-> 0]

\* extractTenantId: the match of https?://([^.]+)\.logto\.app, or null.
extractTenantId(endpoint) == endpoint = "logto.app"

\* Mutant: LOGTO_M2M_CLIENT_SECRET is not required.
loadConfigFromEnvNoSecret(env) ==
  IF env.endpoint = "" THEN "Missing required env var: LOGTO_ENDPOINT"
  ELSE IF ~env.tenantId /\ ~extractTenantId(env.endpoint)
    THEN "Cannot extract tenant-id from LOGTO_ENDPOINT"
  ELSE IF ~env.clientId THEN "Missing required env var: LOGTO_M2M_CLIENT_ID"
  ELSE "ok"

\* loadConfigFromEnv: "ok", or the error it throws.
loadConfigFromEnv(env) ==
  IF env.endpoint = "" THEN "Missing required env var: LOGTO_ENDPOINT"
  ELSE IF ~env.tenantId /\ ~extractTenantId(env.endpoint)
    THEN "Cannot extract tenant-id from LOGTO_ENDPOINT"
  ELSE IF ~env.clientId THEN "Missing required env var: LOGTO_M2M_CLIENT_ID"
  ELSE IF ~env.clientSecret
    THEN "Missing required env var: LOGTO_M2M_CLIENT_SECRET"
  ELSE "ok"

\* No earlier run.
NoRun == [done |-> FALSE, store |-> <<>>, actions |-> <<>>]

NoRequest ==
  [kind |-> "none", item |-> 0, strat |-> 0, method |-> "none", url |-> "",
   id |-> 0, body |-> "none", templates |-> <<>>, thrown |-> FALSE,
   status |-> 0, class |-> "none", outcome |-> "", response |-> NoEntry]

\* "Failed to list email templates: ..." of listEmailTemplates.
ListFailed == [kind |-> "list", item |-> 0, errors |-> <<>>]

\* "Email template list endpoint is not available (got 404/405). Set
\* LOGTO_EMAIL_TEMPLATES_PATH ..." of export and list.
ListUnavailable == [kind |-> "listUnavailable", item |-> 0, errors |-> <<>>]

NoFailure == [kind |-> "none", item |-> 0, errors |-> <<>>]

Idle(p) ==
  /\ op[p] = "none"
  /\ dryRun[p] = FALSE
  /\ localTemplates[p] = <<>>
  /\ pc[p] = "idle"

\* One invocation, about to list: syncEmailTemplates in any revision, or
\* exportEmailTemplates / listEmailTemplatesSummary (the same in every
\* revision) into an empty output directory.  The second invocation never
\* starts.
Init ==
  /\ variant \in Variants
  /\ store \in Stores
  /\ lastReq = [p \in Procs |-> NoRequest]
  /\ op \in [Procs -> {"sync", "export", "list", "none"}]
  /\ dryRun \in [Procs -> BOOLEAN]
  /\ localTemplates \in [Procs -> LocalLists]
  /\ pc \in [Procs -> {"list", "idle"}]
  /\ op[1] # "none" /\ pc[1] = "list"
  /\ op[1] # "sync" =>
       variant = "bulk" /\ dryRun[1] = FALSE /\ localTemplates[1] = <<>>
  /\ Idle(2)
  /\ remoteTemplates = [p \in Procs |-> <<>>]
  /\ exportCount = [p \in Procs |-> -1]
  /\ outDir \in [Procs -> OutDirs \cup {NoPath}]
  /\ \A p \in Procs : op[p] = "export" <=> outDir[p] # NoPath
  /\ returnedDir = [p \in Procs |-> NoPath]
  /\ summary = [p \in Procs |-> <<>>]
  /\ fs = EmptyFs
  /\ hasRemoteIndex = [p \in Procs |-> FALSE]
  /\ remoteIndex = [p \in Procs |-> EmptyIndex]
  /\ results = [p \in Procs |-> <<>>]
  /\ idx = [p \in Procs |-> 0]
  /\ strat = [p \in Procs |-> 0]
  /\ errors = [p \in Procs |-> <<>>]
  /\ attempts = [p \in Procs |-> <<>>]
  /\ firstRun = [p \in Procs |-> NoRun]
  /\ unapplied = [p \in Procs |-> FALSE]
  /\ cli = NoCli
  /\ failure = [p \in Procs |-> NoFailure]

\* A request as lastReq records it: for which item and strategy it was made,
\* whether the client threw, the status, what the code made of the answer
\* and, for a try* call that returns ok, the response it returns.
Logged(kind, item, s, req, resp, outcome) ==
  [kind |-> kind, item |-> item, strat |-> s, method |-> req.method,
   url |-> req.url, id |-> req.id, body |-> req.body,
   templates |-> req.templates, thrown |-> resp.thrown,
   status |-> resp.status, class |-> BodyClass(resp), outcome |-> outcome,
   response |-> NoEntry]

\* The answers of a try* call so far: the call starts with its first strategy.
Attempted(before, s, resp) ==
  LET answer == [thrown |-> resp.thrown, status |-> resp.status]
  IN  IF s = 1 THEN <<answer>> ELSE Append(before, answer)

ListRequest == Request("GET", "base", 0, "none", <<>>)

\* errorInfo of a failed request.
ErrorInfo(req, resp) ==
  [method |-> req.method, url |-> req.url, status |-> resp.status]

\* Mutant: the update chain is taken for every matched remote entry.
LoopPcByEntry(locals, hasIndex, index, i) ==
  IF i > Len(locals) THEN "done"
  ELSE IF Existing(hasIndex, index, locals[i]) # NoEntry THEN "update"
  ELSE "create"

\* Where the per-item loop suspends next: at the first request of item i,
\* or at the return when the list is exhausted.
LoopPc(locals, hasIndex, index, i) ==
  IF i > Len(locals) THEN "done"
  ELSE IF Existing(hasIndex, index, locals[i]).id # 0 THEN "update"
  ELSE "create"

\* Mutant: the bulk revision writes without looking at dryRun.
AfterListIgnoringDryRun(v, dry, locals, hasIndex, index) ==
  IF v = "bulk" THEN "bulk"
  ELSE IF dry THEN "done"
  ELSE LoopPc(locals, hasIndex, index, 1)

\* Where syncEmailTemplates suspends after the listing: with dryRun it
\* returns the plan; otherwise at the bulk PUT or at the loop's first request.
AfterList(v, dry, locals, hasIndex, index) ==
  IF dry THEN "done"
  ELSE IF v = "bulk" THEN "bulk"
  ELSE LoopPc(locals, hasIndex, index, 1)

\* Mutant: the loop ends after the first item that succeeds.
StepPcStopsEarly(kind, outcome, goesOn, locals, hasIndex, index, i) ==
  IF outcome = "ok" THEN "done"
  ELSE IF goesOn THEN kind
  ELSE "thrown"

\* Mutant: a failed request is made again.
StepPcRetry(kind, outcome, goesOn, locals, hasIndex, index, i) ==
  IF outcome = "ok" THEN LoopPc(locals, hasIndex, index, i + 1)
  ELSE kind

\* Mutant: a failed item is skipped and the loop goes on.
StepPcContinueOnError(kind, outcome, goesOn, locals, hasIndex, index, i) ==
  IF goesOn THEN kind
  ELSE LoopPc(locals, hasIndex, index, i + 1)

\* Where the loop suspends after a request of item i: at the next strategy
\* of the same try* call, at the next item, or nowhere after the throw.
StepPc(kind, outcome, goesOn, locals, hasIndex, index, i) ==
  IF outcome = "ok" THEN LoopPc(locals, hasIndex, index, i + 1)
  ELSE IF goesOn THEN kind
  ELSE "thrown"

\* ------------------------------------------------------ syncEmailTemplates
\* The listing GET of syncEmailTemplates and the code up to the first write:
\* the index, then (bulk) the planning loop, or (per item) the for loop up
\* to its first request; with dryRun the whole plan and the return.
SyncListFrom(p, responses) ==
  /\ op[p] = "sync" /\ pc[p] = "list"
  /\ \E resp \in responses :
       LET listed  == listEmailTemplates(resp)
           hasIdx  == listed.isArray
           index   == BuildIndex(listed)
           locals  == localTemplates[p]
           dry     == IF dryRun[p] THEN "true" ELSE "false"
           plan    == [i \in 1..Len(locals) |->
                         PlannedResult(hasIdx, index, locals[i],
                                       IF variant = "bulk" THEN dry ELSE "true")]
       IN  /\ lastReq' = [lastReq EXCEPT ![p] =
                          Logged("list", 0, 0, ListRequest, resp,
                                 IF listed.thrown THEN "fail" ELSE "ok")]
           /\ remoteTemplates' = [remoteTemplates EXCEPT ![p] = listed.list]
           /\ IF listed.thrown
                THEN /\ pc' = [pc EXCEPT ![p] = "thrown"]
                     /\ failure' = [failure EXCEPT ![p] = ListFailed]
                     /\ UNCHANGED <<hasRemoteIndex, remoteIndex, results, idx, strat>>
                ELSE /\ hasRemoteIndex' = [hasRemoteIndex EXCEPT ![p] = hasIdx]
                     /\ remoteIndex' = [remoteIndex EXCEPT ![p] = index]
                     /\ failure' = failure
                     /\ pc' = [pc EXCEPT ![p] =
                                 AfterList(variant, dryRun[p], locals, hasIdx, index)]
                     /\ results' = [results EXCEPT ![p] =
                                      IF variant = "bulk" \/ dryRun[p]
                                        THEN plan ELSE <<>>]
                     /\ idx' = [idx EXCEPT ![p] = 1]
                     /\ strat' = [strat EXCEPT ![p] = 1]
  /\ UNCHANGED <<variant, store, op, dryRun, localTemplates, errors, attempts,
                 exportCount, outDir, returnedDir, summary, fs, firstRun,
                 unapplied, cli>>

SyncList(p) == SyncListFrom(p, ListResponses(store))

\* The bulk PUT of the current revision and the code after it.
BulkUpdated(resp, key) ==
  LET r == ResultOf(resp)
      updatedTemplates == IF r.shape = "array" THEN r.elems ELSE <<>>
      hits == {i \in 1..Len(updatedTemplates) :
                 /\ updatedTemplates[i].templateType # ""
                 /\ updatedTemplates[i].languageTag # ""
                 /\ makeKey(updatedTemplates[i].templateType,
                            updatedTemplates[i].languageTag) = key}
  IN  IF hits = {} THEN NoEntry
      ELSE ToEntry(updatedTemplates[CHOOSE i \in hits : \A j \in hits : j <= i])

BulkPut(p) ==
  /\ op[p] = "sync" /\ pc[p] = "bulk"
  /\ LET locals == localTemplates[p]
         req    == Request("PUT", "base", 0, "batch", MapSeq(locals, fullTemplate))
         after  == Effect(store, req)
     IN  \E resp \in WriteResponses(Echo(after, req)) :
           LET failed == resp.thrown \/ resp.status >= 400
           IN  /\ store' = IF Applied(resp) THEN after ELSE store
               /\ unapplied' = [unapplied EXCEPT ![p] =
                                  @ \/ (~failed /\ ~Applied(resp))]
               /\ lastReq' = [lastReq EXCEPT ![p] =
                              Logged("bulk", 0, 1, req, resp,
                                     IF failed THEN "fail" ELSE "ok")]
               /\ IF failed
                    THEN /\ pc' = [pc EXCEPT ![p] = "thrown"]
                         /\ failure' = [failure EXCEPT ![p] =
                                          [kind |-> "bulk", item |-> 0,
                                           errors |-> <<ErrorInfo(req, resp)>>]]
                         /\ results' = results
                    ELSE /\ pc' = [pc EXCEPT ![p] = "done"]
                         /\ failure' = failure
                         /\ results' = [results EXCEPT ![p] =
                              [i \in 1..Len(locals) |->
                                 LET updated == BulkUpdated(resp, KeyOfLocal(locals[i]))
                                 IN  [results[p][i] EXCEPT
                                        !.method = "PUT",
                                        !.remote = IF updated # NoEntry THEN updated
                                                   ELSE Existing(hasRemoteIndex[p],
                                                                 remoteIndex[p],
                                                                 locals[i])]]]
  /\ UNCHANGED <<exportVars, variant, op, dryRun, localTemplates, hasRemoteIndex,
                 remoteIndex, idx, strat, errors, attempts>>

\* One request of tryUpdateById for the current item and the code up to the
\* next await: the next strategy, the next item's first request, the return
\* of syncEmailTemplates, or the throw.
UpdateStep(p) ==
  /\ op[p] = "sync" /\ pc[p] = "update"
  /\ LET locals   == localTemplates[p]
         local    == locals[idx[p]]
         existing == Existing(hasRemoteIndex[p], remoteIndex[p], local)
         action   == ActionOf(hasRemoteIndex[p], remoteIndex[p], local)
         req      == UpdateRequest(variant, strat[p], existing.id, local)
         after    == Effect(store, req)
     IN  \E resp \in WriteResponses(Echo(after, req)) :
           LET d       == tryUpdateById(variant, strat[p], existing.id, local, resp)
               errs    == IF d.pushed THEN Append(errors[p], ErrorInfo(req, resp))
                          ELSE errors[p]
               goesOn  == d.outcome = "next" /\ strat[p] < UpdateStrategies(variant)
           IN  /\ store' = IF Applied(resp) THEN after ELSE store
               /\ unapplied' = [unapplied EXCEPT ![p] =
                                  @ \/ (d.outcome = "ok" /\ ~Applied(resp))]
               /\ lastReq' = [lastReq EXCEPT ![p] =
                              [Logged("update", idx[p], strat[p], req, resp, d.outcome)
                                 EXCEPT !.response = ToEntry(d.response)]]
               /\ attempts' = [attempts EXCEPT ![p] = Attempted(@, strat[p], resp)]
               /\ pc' = [pc EXCEPT ![p] =
                           StepPc("update", d.outcome, goesOn, locals,
                                  hasRemoteIndex[p], remoteIndex[p], idx[p])]
               /\ IF d.outcome = "ok"
                    THEN /\ results' = [results EXCEPT ![p] =
                                          Append(@, WrittenResult(action, local,
                                                                  existing, d.method))]
                         /\ idx' = [idx EXCEPT ![p] = @ + 1]
                         /\ strat' = [strat EXCEPT ![p] = 1]
                         /\ errors' = [errors EXCEPT ![p] = <<>>]
                         /\ failure' = failure
                  ELSE IF goesOn
                    THEN /\ strat' = [strat EXCEPT ![p] = @ + 1]
                         /\ errors' = [errors EXCEPT ![p] = errs]
                         /\ UNCHANGED <<results, idx, failure>>
                  ELSE /\ failure' = [failure EXCEPT ![p] =
                                        [kind |-> "update", item |-> idx[p],
                                         errors |-> errs]]
                       /\ errors' = [errors EXCEPT ![p] = errs]
                       /\ UNCHANGED <<results, idx, strat>>
  /\ UNCHANGED <<exportVars, variant, op, dryRun, localTemplates, hasRemoteIndex, remoteIndex>>

\* One request of tryCreate for the current item and the code up to the next
\* await; a created object with an id is put into remoteIndex.
CreateStep(p) ==
  /\ op[p] = "sync" /\ pc[p] = "create"
  /\ LET locals   == localTemplates[p]
         local    == locals[idx[p]]
         action   == ActionOf(hasRemoteIndex[p], remoteIndex[p], local)
         req      == CreateRequest(variant, strat[p], local)
         after    == Effect(store, req)
     IN  \E resp \in WriteResponses(Echo(after, req)) :
           LET d       == tryCreate(variant, strat[p], resp)
               errs    == IF d.pushed THEN Append(errors[p], ErrorInfo(req, resp))
                          ELSE errors[p]
               goesOn  == d.outcome = "next" /\ strat[p] < CreateStrategies(variant)
               index   == IF d.response.id # 0
                            THEN [remoteIndex[p] EXCEPT
                                    ![KeyOfLocal(local)] = ToEntry(d.response)]
                            ELSE remoteIndex[p]
           IN  /\ store' = IF Applied(resp) THEN after ELSE store
               /\ unapplied' = [unapplied EXCEPT ![p] =
                                  @ \/ (d.outcome = "ok" /\ ~Applied(resp))]
               /\ lastReq' = [lastReq EXCEPT ![p] =
                              [Logged("create", idx[p], strat[p], req, resp, d.outcome)
                                 EXCEPT !.response = ToEntry(d.response)]]
               /\ attempts' = [attempts EXCEPT ![p] = Attempted(@, strat[p], resp)]
               /\ pc' = [pc EXCEPT ![p] =
                           StepPc("create", d.outcome, goesOn, locals,
                                  hasRemoteIndex[p], index, idx[p])]
               /\ IF d.outcome = "ok"
                    THEN /\ remoteIndex' = [remoteIndex EXCEPT ![p] = index]
                         /\ results' = [results EXCEPT ![p] =
                                          Append(@, WrittenResult(action, local,
                                                                  NoEntry, d.method))]
                         /\ idx' = [idx EXCEPT ![p] = @ + 1]
                         /\ strat' = [strat EXCEPT ![p] = 1]
                         /\ errors' = [errors EXCEPT ![p] = <<>>]
                         /\ failure' = failure
                  ELSE IF goesOn
                    THEN /\ strat' = [strat EXCEPT ![p] = @ + 1]
                         /\ errors' = [errors EXCEPT ![p] = errs]
                         /\ UNCHANGED <<remoteIndex, results, idx, failure>>
                  ELSE /\ failure' = [failure EXCEPT ![p] =
                                        [kind |-> "create", item |-> idx[p],
                                         errors |-> errs]]
                       /\ errors' = [errors EXCEPT ![p] = errs]
                       /\ UNCHANGED <<remoteIndex, results, idx, strat>>
  /\ UNCHANGED <<exportVars, variant, op, dryRun, localTemplates, hasRemoteIndex>>

\* --------------------------------- exportEmailTemplates, the summary listing
syncVars ==
  <<variant, store, op, dryRun, localTemplates, hasRemoteIndex, remoteIndex,
    results, strat, errors, attempts, firstRun, unapplied, cli>>

\* The listing GET of exportEmailTemplates, the check of its result and the
\* mkdir of the output root.
ExportList(p) ==
  /\ op[p] = "export" /\ pc[p] = "list"
  /\ \E resp \in ExportListResponses(store) :
       LET listed == listEmailTemplates(resp)
       IN  /\ lastReq' = [lastReq EXCEPT ![p] =
                          Logged("list", 0, 0, ListRequest, resp,
                                 IF listed.thrown THEN "fail" ELSE "ok")]
           /\ IF listed.thrown \/ ~listed.isArray
                THEN /\ pc' = [pc EXCEPT ![p] = "thrown"]
                     /\ failure' = [failure EXCEPT ![p] =
                                      IF listed.thrown THEN ListFailed
                                      ELSE ListUnavailable]
                     /\ UNCHANGED <<remoteTemplates, fs, idx, exportCount, returnedDir>>
                ELSE /\ remoteTemplates' = [remoteTemplates EXCEPT ![p] = listed.list]
                     /\ fs' = [fs EXCEPT !.root = TRUE]
                     /\ idx' = [idx EXCEPT ![p] = 1]
                     /\ pc' = [pc EXCEPT ![p] =
                                 IF Len(listed.list) = 0 THEN "done" ELSE "export"]
                     /\ exportCount' = [exportCount EXCEPT ![p] =
                                          IF Len(listed.list) = 0
                                            THEN ExportCount(listed.list) ELSE @]
                     /\ returnedDir' = [returnedDir EXCEPT ![p] =
                                          IF Len(listed.list) = 0
                                            THEN resolve(outDir[p]) ELSE @]
                     /\ failure' = failure
  /\ UNCHANGED <<syncVars, summary, outDir>>

\* One round of the export loop: the entry is skipped or its directory and
\* files are written; after the last round the count is returned.
ExportEntry(p) ==
  /\ op[p] = "export" /\ pc[p] = "export"
  /\ LET t    == remoteTemplates[p][idx[p]]
         kp   == <<t.templateType, t.languageTag>>
         skip == Skipped(t)
         last == idx[p] = Len(remoteTemplates[p])
     IN  /\ fs' = IF skip THEN fs
                  ELSE [fs EXCEPT !.dirs[kp] = ExportOne(@, t.details)]
         /\ idx' = [idx EXCEPT ![p] = @ + 1]
         /\ pc' = [pc EXCEPT ![p] = IF last THEN "done" ELSE "export"]
         /\ exportCount' = [exportCount EXCEPT ![p] =
                              IF last THEN ExportCount(remoteTemplates[p]) ELSE @]
         /\ returnedDir' = [returnedDir EXCEPT ![p] =
                              IF last THEN resolve(outDir[p]) ELSE @]
  /\ UNCHANGED <<syncVars, lastReq, failure, remoteTemplates, summary, outDir>>

\* listEmailTemplatesSummary: the listing GET and the map over its result.
SummaryList(p) ==
  /\ op[p] = "list" /\ pc[p] = "list"
  /\ \E resp \in ListResponses(store) :
       LET listed == listEmailTemplates(resp)
       IN  /\ lastReq' = [lastReq EXCEPT ![p] =
                          Logged("list", 0, 0, ListRequest, resp,
                                 IF listed.thrown THEN "fail" ELSE "ok")]
           /\ IF listed.thrown \/ ~listed.isArray
                THEN /\ pc' = [pc EXCEPT ![p] = "thrown"]
                     /\ failure' = [failure EXCEPT ![p] =
                                      IF listed.thrown THEN ListFailed
                                      ELSE ListUnavailable]
                     /\ summary' = summary
                ELSE /\ pc' = [pc EXCEPT ![p] = "done"]
                     /\ summary' = [summary EXCEPT ![p] = MapSeq(listed.list, Summarise)]
                     /\ failure' = failure
  /\ UNCHANGED <<syncVars, idx, remoteTemplates, exportCount, outDir, returnedDir, fs>>

Next ==
  \E p \in Procs :
    \/ SyncList(p)
    \/ BulkPut(p)
    \/ UpdateStep(p)
    \/ CreateStep(p)
    \/ ExportList(p)
    \/ ExportEntry(p)
    \/ SummaryList(p)

Spec == Init /\ [][Next]_vars

\* ------------------------------------------- listings with partial entries
\* The listing GET of a sync answered by a service whose array may hold an
\* entry without templateType, languageTag or details.
SyncPartialList(p) == SyncListFrom(p, ExportListResponses(store))

NextListing ==
  \E p \in Procs :
    \/ SyncPartialList(p)
    \/ BulkPut(p)
    \/ UpdateStep(p)
    \/ CreateStep(p)
    \/ ExportList(p)
    \/ ExportEntry(p)
    \/ SummaryList(p)

SpecListing == Init /\ [][NextListing]_vars

\* ------------------------------------------------------- a second sync run
\* The listing of the run was an array with an entry for every local key.
ListedEveryLocal(p) ==
  /\ hasRemoteIndex[p]
  /\ \A i \in 1..Len(localTemplates[p]) :
       \E j \in 1..Len(remoteTemplates[p]) :
         /\ remoteTemplates[p][j].templateType = localTemplates[p][i].templateType
         /\ remoteTemplates[p][j].languageTag = localTemplates[p][i].languageTag

\* The caller runs syncEmailTemplates again, in apply mode, with the same
\* local templates, after a run that returned and whose listing had every
\* local key: the new call starts with fresh locals.
Rerun(p) ==
  /\ op[p] = "sync" /\ pc[p] = "done" /\ ~dryRun[p]
  /\ ~firstRun[p].done
  /\ localTemplates[p] # <<>>
  /\ ListedEveryLocal(p)
  /\ firstRun' = [firstRun EXCEPT ![p] =
                    [done |-> TRUE, store |-> store,
                     actions |-> [i \in 1..Len(results[p]) |-> results[p][i].action]]]
  /\ pc' = [pc EXCEPT ![p] = "list"]
  /\ lastReq' = [lastReq EXCEPT ![p] = NoRequest]
  /\ hasRemoteIndex' = [hasRemoteIndex EXCEPT ![p] = FALSE]
  /\ remoteIndex' = [remoteIndex EXCEPT ![p] = EmptyIndex]
  /\ remoteTemplates' = [remoteTemplates EXCEPT ![p] = <<>>]
  /\ results' = [results EXCEPT ![p] = <<>>]
  /\ idx' = [idx EXCEPT ![p] = 0]
  /\ strat' = [strat EXCEPT ![p] = 0]
  /\ errors' = [errors EXCEPT ![p] = <<>>]
  /\ attempts' = [attempts EXCEPT ![p] = <<>>]
  /\ UNCHANGED <<variant, store, op, dryRun, localTemplates, failure, exportCount,
                 outDir, returnedDir,
                 summary, fs, unapplied, cli>>

NextTwice ==
  \/ Next
  \/ \E p \in Procs : Rerun(p)

SpecTwice == Init /\ [][NextTwice]_vars

\* ------------------------------------------------ loadLocalEmailTemplates
\* A call of loadLocalEmailTemplates: the templates, or the error thrown.
LoadLocal(p) ==
  /\ op[p] = "load" /\ pc[p] = "load"
  /\ LET loaded == loadLocalEmailTemplates(fs, cli.only, cli.languages)
     IN  IF loaded.thrown
           THEN /\ pc' = [pc EXCEPT ![p] = "thrown"]
                /\ failure' = [failure EXCEPT ![p] =
                                 [kind |-> loaded.error, item |-> loaded.at,
                                  errors |-> <<>>]]
                /\ localTemplates' = localTemplates
           ELSE /\ pc' = [pc EXCEPT ![p] = "done"]
                /\ failure' = failure
                /\ localTemplates' = [localTemplates EXCEPT ![p] = loaded.templates]
  /\ UNCHANGED <<variant, store, lastReq, op, dryRun, hasRemoteIndex, remoteIndex,
                 results, idx, strat, errors, attempts, remoteTemplates,
                 exportCount, outDir, returnedDir, summary, fs, firstRun,
                 unapplied, cli>>

\* Nothing has run yet: the state of every invocation before its call.
Fresh ==
  /\ lastReq = [p \in Procs |-> NoRequest]
  /\ remoteTemplates = [p \in Procs |-> <<>>]
  /\ exportCount = [p \in Procs |-> -1]
  /\ returnedDir = [p \in Procs |-> NoPath]
  /\ summary = [p \in Procs |-> <<>>]
  /\ hasRemoteIndex = [p \in Procs |-> FALSE]
  /\ remoteIndex = [p \in Procs |-> EmptyIndex]
  /\ results = [p \in Procs |-> <<>>]
  /\ idx = [p \in Procs |-> 0]
  /\ strat = [p \in Procs |-> 0]
  /\ errors = [p \in Procs |-> <<>>]
  /\ attempts = [p \in Procs |-> <<>>]
  /\ firstRun = [p \in Procs |-> NoRun]
  /\ unapplied = [p \in Procs |-> FALSE]
  /\ failure = [p \in Procs |-> NoFailure]

\* loadLocalEmailTemplates called on any local store, without filters.
InitLoad ==
  /\ Fresh
  /\ variant = "bulk"
  /\ store \in Stores
  /\ op = [p \in Procs |-> IF p = 1 THEN "load" ELSE "none"]
  /\ pc = [p \in Procs |-> IF p = 1 THEN "load" ELSE "idle"]
  /\ dryRun = [p \in Procs |-> FALSE]
  /\ localTemplates = [p \in Procs |-> <<>>]
  /\ outDir = [p \in Procs |-> NoPath]
  /\ fs \in LocalStores
  /\ cli = NoCli

NextLoad == \E p \in Procs : LoadLocal(p)

SpecLoad == InitLoad /\ [][NextLoad]_vars

\* ------------------------------------------- two concurrent invocations
\* The local lists of the two invocations: one template each, of the same
\* pair, and each invocation with details of its own.
RaceLists ==
  {[p \in Procs |->
      <<[templateType |-> kp[1], languageTag |-> kp[2],
         details |-> DetailsAt(p)]>>] : kp \in KeyPairs}

EmptyStore == [kp \in KeyPairs |-> NoEntry]

\* Two callers start syncEmailTemplates in apply mode against the same
\* service, which holds no template yet; their awaits interleave in any
\* order.
InitRace ==
  /\ Fresh
  /\ variant \in Variants
  /\ store = EmptyStore
  /\ op = [p \in Procs |-> "sync"]
  /\ pc = [p \in Procs |-> "list"]
  /\ dryRun = [p \in Procs |-> FALSE]
  /\ localTemplates \in RaceLists
  /\ outDir = [p \in Procs |-> NoPath]
  /\ fs = EmptyFs
  /\ cli = NoCli

NextRace ==
  \E p \in Procs :
    \/ SyncList(p)
    \/ BulkPut(p)
    \/ UpdateStep(p)
    \/ CreateStep(p)

SpecRace == InitRace /\ [][NextRace]_vars

\* ------------------------------------------------------- main of cli.js
\* The variables main does not touch before it calls a function.
callVars ==
  <<variant, store, lastReq, hasRemoteIndex, remoteIndex, results, idx, strat,
    errors, attempts, failure, remoteTemplates, exportCount, outDir,
    returnedDir, summary, fs, firstRun, unapplied>>

\* main up to createLogtoApiClient: loadConfigFromEnv throws, and main's
\* catch exits with code 1, or returns the configuration.
CliConfig ==
  /\ cli.pc = "config"
  /\ cli' = IF loadConfigFromEnv(cli.env) = "ok"
              THEN [cli EXCEPT !.pc = "auth"]
              ELSE [cli EXCEPT !.pc = "exit", !.exit = 1]
  /\ UNCHANGED <<callVars, op, pc, dryRun, localTemplates>>

\* createLogtoApiClient: the token request, which the service grants or
\* not; then the first call of the command: loadLocalEmailTemplates for
\* sync, exportEmailTemplates, listEmailTemplatesSummary.
CliAuth ==
  /\ cli.pc = "auth"
  /\ \E granted \in BOOLEAN :
       IF ~granted
         THEN /\ cli' = [cli EXCEPT !.pc = "exit", !.exit = 1, !.tokens = @ + 1]
              /\ UNCHANGED <<op, pc>>
         ELSE /\ cli' = [cli EXCEPT !.tokens = @ + 1,
                                    !.pc = IF cli.command = "sync" THEN "load"
                                           ELSE "call"]
              /\ op' = [op EXCEPT ![1] = IF cli.command = "sync" THEN "load"
                                         ELSE cli.command]
              /\ pc' = [pc EXCEPT ![1] = IF cli.command = "sync" THEN "load"
                                         ELSE "list"]
  /\ UNCHANGED <<callVars, dryRun, localTemplates>>

\* Mutant: syncEmailTemplates is called with an empty list too.
AfterLoadAlwaysCalls(thrown, templates) ==
  IF thrown THEN "exit1" ELSE "call"

\* What main does after loadLocalEmailTemplates: its error goes to main's
\* catch, `if (!templates.length)` exits with code 0, otherwise
\* syncEmailTemplates is called.
AfterLoad(thrown, templates) ==
  IF thrown THEN "exit1"
  ELSE IF Len(templates) = 0 THEN "exit0"
  ELSE "call"

\* The sync command after loadLocalEmailTemplates.
CliLoaded ==
  /\ cli.pc = "load" /\ pc[1] \in {"done", "thrown"}
  /\ LET then == AfterLoad(pc[1] = "thrown", localTemplates[1])
     IN  IF then = "call"
           THEN /\ cli' = [cli EXCEPT !.pc = "call"]
                /\ op' = [op EXCEPT ![1] = "sync"]
                /\ pc' = [pc EXCEPT ![1] = "list"]
                /\ dryRun' = [dryRun EXCEPT ![1] = cli.dryRun]
           ELSE /\ cli' = [cli EXCEPT !.pc = "exit",
                                      !.exit = IF then = "exit0" THEN 0 ELSE 1]
                /\ UNCHANGED <<op, pc, dryRun>>
  /\ UNCHANGED <<callVars, localTemplates>>

\* The command's function has returned (process.exit(0)) or thrown (main's
\* catch: process.exit(1)).
CliExit ==
  /\ cli.pc = "call" /\ pc[1] \in {"done", "thrown"}
  /\ cli' = [cli EXCEPT !.pc = "exit", !.exit = IF pc[1] = "done" THEN 0 ELSE 1]
  /\ UNCHANGED <<callVars, op, pc, dryRun, localTemplates>>

\* The local stores of the runs of cli.js: per directory none, a template
\* with content.html, one with content.txt, one without subject.txt.
CliDirs ==
  {NoDir,
   [exists |-> TRUE, subject |-> File(<<"H", "i", "\n">>),
    html |-> File(<<"<", "p", ">", "\n">>), txt |-> NoFile, meta |-> NoMeta],
   [exists |-> TRUE, subject |-> File(<<"Y", "o", "\n">>),
    html |-> NoFile, txt |-> File(<<"b", "\n">>),
    meta |-> [exists |-> TRUE, replyTo |-> "r@x", sendFrom |-> "",
              contentType |-> ""]],
   [exists |-> TRUE, subject |-> NoFile,
    html |-> File(<<"<", "p", ">", "\n">>), txt |-> NoFile, meta |-> NoMeta]}

CliStores == [root : {TRUE}, dirs : [KeyPairs -> CliDirs]]

\* The command lines: a command, --languages and --dry-run for sync.
CommandLines ==
  {c \in [command : {"sync", "export", "list"}, env : Envs, only : {NoFilter},
          languages : {NoFilter, Filter({"en"}), Filter({"fr"})},
          dryRun : BOOLEAN, pc : {"config"}, exit : {-1}, tokens : {0}] :
     c.command # "sync" => (c.languages = NoFilter /\ ~c.dryRun)}

\* A run of cli.js about to load its configuration.
InitMain ==
  /\ Fresh
  /\ variant = "bulk"
  /\ store \in Stores
  /\ op = [p \in Procs |-> "none"]
  /\ pc = [p \in Procs |-> "idle"]
  /\ dryRun = [p \in Procs |-> FALSE]
  /\ localTemplates = [p \in Procs |-> <<>>]
  /\ cli \in CommandLines
  /\ outDir = [p \in Procs |->
                 IF p = 1 /\ cli.command = "export"
                   THEN [absolute |-> FALSE, segments |-> <<"out">>]
                   ELSE NoPath]
  /\ IF cli.command = "sync" THEN fs \in CliStores ELSE fs = EmptyFs

\* syncEmailTemplates of emailTemplatesApi.js called without cli.js.
InitDirectSync == Init /\ variant = "bulk" /\ op[1] = "sync"

InitCli == InitMain \/ InitDirectSync

NextCli ==
  \/ CliConfig
  \/ CliAuth
  \/ CliLoaded
  \/ CliExit
  \/ \E p \in Procs : LoadLocal(p)
  \/ \E p \in Procs : SyncList(p)
  \/ \E p \in Procs : BulkPut(p)
  \/ \E p \in Procs : ExportList(p)
  \/ \E p \in Procs : ExportEntry(p)
  \/ \E p \in Procs : SummaryList(p)

SpecCli == InitCli /\ [][NextCli]_vars

\* ------------------------------------------- exports into one directory
\* Before an export someone edits a template on the remote side.
RemoteEdit ==
  /\ \E p \in Procs :
       /\ op[p] = "export"
       /\ pc[p] = "list" \/ (pc[p] = "done" /\ ~firstRun[p].done)
  /\ \E kp \in KeyPairs, d \in EditedDetailsSet :
       /\ store[kp] # NoEntry
       /\ store[kp].details # d
       /\ store' = [store EXCEPT ![kp].details = d]
  /\ UNCHANGED <<variant, lastReq, op, dryRun, localTemplates, pc, hasRemoteIndex,
                 remoteIndex, results, idx, strat, errors, attempts, failure,
                 remoteTemplates, exportCount, outDir, returnedDir, summary, fs,
                 firstRun, unapplied, cli>>

\* The caller runs exportEmailTemplates again with the same outDir: the
\* files of the earlier export are in the directory.
ExportAgain(p) ==
  /\ op[p] = "export" /\ pc[p] = "done"
  /\ ~firstRun[p].done
  /\ firstRun' = [firstRun EXCEPT ![p] =
                    [done |-> TRUE, store |-> store, actions |-> <<>>]]
  /\ pc' = [pc EXCEPT ![p] = "list"]
  /\ lastReq' = [lastReq EXCEPT ![p] = NoRequest]
  /\ remoteTemplates' = [remoteTemplates EXCEPT ![p] = <<>>]
  /\ exportCount' = [exportCount EXCEPT ![p] = -1]
  /\ returnedDir' = [returnedDir EXCEPT ![p] = NoPath]
  /\ idx' = [idx EXCEPT ![p] = 0]
  /\ UNCHANGED <<variant, store, op, dryRun, localTemplates, hasRemoteIndex,
                 remoteIndex, results, strat, errors, attempts, failure, outDir,
                 summary, fs, unapplied, cli>>

\* Exports into the directory "out" of the working directory.
InitExports ==
  /\ Init
  /\ op[1] = "export"
  /\ outDir[1] = [absolute |-> FALSE, segments |-> <<"out">>]

NextExports ==
  \/ \E p \in Procs : ExportList(p)
  \/ \E p \in Procs : ExportEntry(p)
  \/ RemoteEdit
  \/ \E p \in Procs : ExportAgain(p)

SpecExports == InitExports /\ [][NextExports]_vars

\* ------------------------------------------------------------- properties
SamePair(a, b) ==
  a.templateType = b.templateType /\ a.languageTag = b.languageTag

\* The array the listing returned holds an entry of the template's pair.
ListingHas(p, local) ==
  \E j \in 1..Len(remoteTemplates[p]) : SamePair(remoteTemplates[p][j], local)

\* The action of a result agrees with the listing.
LabelAgrees(p, r) ==
  /\ r.action = "update" <=> (hasRemoteIndex[p] /\ ListingHas(p, r.local))
  /\ r.action = "create" <=> (hasRemoteIndex[p] /\ ~ListingHas(p, r.local))
  /\ r.action = "upsert" <=> ~hasRemoteIndex[p]

\* C1 as stated: for every local template, in dry-run and in apply mode, the
\* action is update / create / upsert exactly as the listing has a matching
\* entry / is an array without one / is not an array.
C1_LabelsFollowListing ==
  \A p \in Procs : op[p] = "sync" =>
    \A i \in 1..Len(results[p]) : LabelAgrees(p, results[p][i])

\* No earlier local template of the list has the pair of template i.
FirstOfItsKey(p, i) ==
  \A j \in 1..(i - 1) : ~SamePair(localTemplates[p][j], localTemplates[p][i])

\* C1 amended: the action follows the listing for every local template in
\* dry-run mode and under the bulk write, and in per-item apply mode for every
\* local template that no template of the same key precedes in the list.
C1_LabelsFollowListingFirstOfKey ==
  \A p \in Procs : op[p] = "sync" =>
    \A i \in 1..Len(results[p]) :
      (variant = "bulk" \/ dryRun[p] \/ FirstOfItsKey(p, i))
        => (results[p][i].local = localTemplates[p][i]
            /\ LabelAgrees(p, results[p][i]))

C1_Witness ==
  /\ variant = "chain" /\ op[1] = "sync" /\ ~dryRun[1] /\ pc[1] = "done"
  /\ Len(results[1]) = 2
  /\ results[1][1].action = "update"
  /\ results[1][2].action = "create"

\* C2: with dryRun no step of syncEmailTemplates issues a PUT or PATCH (its
\* only request is the listing GET) and no step changes the remote store.
C2_DryRunIssuesNoWrite ==
  [][\A p \in Procs :
       (op[p] = "sync" /\ dryRun[p] /\ pc'[p] # pc[p])
         => (store' = store /\ lastReq'[p].method = "GET" /\ pc[p] = "list")]_vars

C2_Witness ==
  /\ op[1] = "sync" /\ dryRun[1] /\ pc[1] = "done"
  /\ Len(results[1]) = 2
  /\ lastReq[1].method = "GET"
  /\ \E kp \in KeyPairs : store[kp] # NoEntry

\* The pair is the key of no local template of any running sync.
AbsentLocally(kp) ==
  \A p \in Procs : \A i \in 1..Len(localTemplates[p]) :
    <<localTemplates[p][i].templateType, localTemplates[p][i].languageTag>> # kp

\* The template of a request body is one of the local list.
TakenFromLocal(p, t) ==
  \E i \in 1..Len(localTemplates[p]) :
    /\ SamePair(t, localTemplates[p][i])
    /\ t.details = localTemplates[p][i].details

\* C3: every request of a sync run is a GET, PUT or PATCH, every write body
\* holds only templates of the local list, and no step changes a remote
\* entry whose key matches no local template.
C3_SyncIsAdditive ==
  [][/\ \A p \in Procs :
          (op[p] = "sync" /\ lastReq'[p] # NoRequest)
            => /\ lastReq'[p].method \in {"GET", "PUT", "PATCH"}
               /\ \A k \in 1..Len(lastReq'[p].templates) :
                    TakenFromLocal(p, lastReq'[p].templates[k])
     /\ \A kp \in KeyPairs : AbsentLocally(kp) => store'[kp] = store[kp]]_vars

C3_Witness ==
  /\ op[1] = "sync" /\ ~dryRun[1] /\ pc[1] = "done"
  /\ lastReq[1].method = "PUT" /\ lastReq[1].outcome = "ok"
  /\ \E kp \in KeyPairs :
       AbsentLocally(kp) /\ store[kp] # NoEntry /\ store[kp].details = DetailsC
  /\ \E kp \in KeyPairs : store[kp].details = DetailsA

\* The sync was thrown out of by the write of an item.
ItemFailed(p) == failure[p].kind \in {"update", "create"}

\* C4: in per-item apply mode a failed write of item i throws at once: the
\* run is over, its latest request is the one of item i, the items before i
\* are the ones with a result, and afterwards the run issues no request and
\* changes nothing on the remote side.
C4_FailureAbortsTheRun ==
  /\ [](\A p \in Procs : ItemFailed(p) =>
          /\ pc[p] = "thrown"
          /\ ~dryRun[p] /\ variant # "bulk"
          /\ lastReq[p].kind = failure[p].kind
          /\ lastReq[p].item = failure[p].item
          /\ lastReq[p].outcome # "ok"
          /\ Len(results[p]) = failure[p].item - 1)
  /\ [][\A p \in Procs : ItemFailed(p) =>
          (lastReq'[p] = lastReq[p] /\ store' = store /\ pc'[p] = "thrown")]_vars

C4_Witness ==
  /\ op[1] = "sync" /\ ItemFailed(1) /\ pc[1] = "thrown"
  /\ failure[1].item = 1 /\ Len(localTemplates[1]) = 2
  /\ lastReq[1].item = 1

\* The key of a template, written out.
ExpectedKey(t) ==
  IF t.templateType = "SignIn" /\ t.languageTag = "en" THEN "SignIn::en"
  ELSE IF t.templateType = "SignIn" /\ t.languageTag = "zh-CN" THEN "SignIn::zh-CN"
  ELSE "?"

\* Local [SignIn/en, SignIn/zh-CN] against a listing [SignIn/en id=1].
Scenario(p) ==
  /\ Len(localTemplates[p]) = 2
  /\ ExpectedKey(localTemplates[p][1]) = "SignIn::en"
  /\ ExpectedKey(localTemplates[p][2]) = "SignIn::zh-CN"
  /\ hasRemoteIndex[p]
  /\ Len(remoteTemplates[p]) = 1
  /\ ExpectedKey(remoteTemplates[p][1]) = "SignIn::en"
  /\ remoteTemplates[p][1].id = 1

\* C5: a returning sync has one result per local template, in the order of
\* the list, result i with local template i and its key
\* templateType::languageTag; in dry-run mode every result has the dry-run
\* marker and no request, in apply mode every result has request.method; in
\* the scenario the actions are update, create.
C5_OneResultPerTemplateInOrder ==
  \A p \in Procs : (op[p] = "sync" /\ pc[p] = "done") =>
    /\ Len(results[p]) = Len(localTemplates[p])
    /\ \A i \in 1..Len(results[p]) :
         /\ results[p][i].local = localTemplates[p][i]
         /\ results[p][i].key = ExpectedKey(localTemplates[p][i])
         /\ IF dryRun[p]
              THEN results[p][i].dryRun = "true" /\ results[p][i].method = ""
              ELSE results[p][i].method # ""
    /\ Scenario(p) =>
         /\ results[p][1].action = "update" /\ results[p][1].key = "SignIn::en"
         /\ results[p][2].action = "create" /\ results[p][2].key = "SignIn::zh-CN"

C5_Witness ==
  /\ op[1] = "sync" /\ pc[1] = "done" /\ ~dryRun[1] /\ Scenario(1)
  /\ Len(results[1]) = 2
  /\ results[1][1].method # "" /\ results[1][2].method # ""

\* The latest request is a listing GET that the client failed with a status.
ListingThrew(p) == lastReq[p].kind = "list" /\ lastReq[p].thrown

\* C6: a listing GET failing with 404 or 405 makes listEmailTemplates return
\* null (no "Failed to list" error, no index); failing with any other status
\* it makes the caller fail with "Failed to list email templates".
C6_ListNullOn404And405 ==
  \A p \in Procs : ListingThrew(p) =>
    IF lastReq[p].status \in {404, 405}
      THEN /\ failure[p] # ListFailed
           /\ ~hasRemoteIndex[p]
           /\ remoteTemplates[p] = <<>>
           /\ op[p] = "sync" => pc[p] # "thrown"
      ELSE pc[p] = "thrown" /\ failure[p] = ListFailed

C6_Witness ==
  /\ ListingThrew(1) /\ lastReq[1].status = 405
  /\ op[1] = "sync" /\ pc[1] = "done" /\ Len(results[1]) = 2

\* The latest request is a listing that made listEmailTemplates return null.
ListingIsNull(p) ==
  /\ lastReq[p].kind = "list"
  /\ \/ lastReq[p].thrown /\ lastReq[p].status \in {404, 405}
     \/ ~lastReq[p].thrown
          /\ lastReq[p].class \notin {"templates", "emptyArray", "otherArray"}

\* C7: after a null listing export and the summary listing have thrown the
\* "list endpoint is not available" error, with nothing created or written
\* and nothing returned; a sync has not failed, labels every item 'upsert'
\* and, as a dry run, has returned its plan.
C7_NullListingFailsExportNotSync ==
  /\ \A p \in Procs : (ListingIsNull(p) /\ op[p] \in {"export", "list"}) =>
       /\ pc[p] = "thrown"
       /\ failure[p] = ListUnavailable
       /\ fs = EmptyFs
       /\ exportCount[p] = -1
       /\ summary[p] = <<>>
  /\ \A p \in Procs : (ListingIsNull(p) /\ op[p] = "sync") =>
       /\ pc[p] # "thrown" /\ failure[p] = NoFailure
       /\ dryRun[p] => (pc[p] = "done" /\ Len(results[p]) = Len(localTemplates[p]))
  /\ \A p \in Procs : (op[p] = "sync" /\ pc[p] # "list" /\ ~hasRemoteIndex[p]) =>
       \A i \in 1..Len(results[p]) : results[p][i].action = "upsert"

C7_Witness ==
  /\ op[1] = "export" /\ ListingIsNull(1) /\ lastReq[1].status = 404
  /\ failure[1] = ListUnavailable
  /\ \E kp \in KeyPairs : store[kp] # NoEntry

\* The bulk PUT was answered with an error, with a status of 400 or more, or
\* with a body that is neither an array of template-like objects nor one
\* template-like object.
BulkAnswerUnusable(p) ==
  /\ lastReq[p].kind = "bulk"
  /\ \/ lastReq[p].thrown
     \/ lastReq[p].status >= 400
     \/ lastReq[p].class \notin {"templates", "template"}

\* C8: after such an answer to the bulk PUT syncEmailTemplates has thrown
\* for the whole batch and returns no result list.
C8_UnusableBulkAnswerThrows ==
  \A p \in Procs : BulkAnswerUnusable(p) =>
    pc[p] = "thrown" /\ failure[p].kind = "bulk"

\* The latest request is a strategy of the three-strategy tryUpdateById that
\* the client failed with a status other than 404 and 405.
StrategyThrewOther(p) ==
  /\ variant = "chain" /\ lastReq[p].kind = "update"
  /\ lastReq[p].thrown /\ lastReq[p].status \notin {404, 405}

\* C9: an error with a status other than 404 and 405 ends the update at
\* whichever strategy it occurs, with that error alone, and after a failed
\* request the chain goes to the next strategy only when the status of the
\* error was 404 or 405.
C9_OnlyMissingEndpointContinues ==
  /\ [](\A p \in Procs : StrategyThrewOther(p) =>
          /\ pc[p] = "thrown"
          /\ failure[p].kind = "update"
          /\ Len(failure[p].errors) = 1
          /\ failure[p].errors[1].status = lastReq[p].status)
  /\ [][\A p \in Procs :
          (/\ variant = "chain"
           /\ lastReq'[p].kind = "update" /\ lastReq'[p].strat > 1
           /\ lastReq'[p] # lastReq[p]
           /\ lastReq[p].thrown)
            => lastReq[p].status \in {404, 405}]_vars

\* The request of strategy s of the three-strategy tryUpdateById has the
\* given method, url and body, and its template carries the id or not.
StrategyIs(r, method, url, body, withId) ==
  /\ r.method = method /\ r.url = url /\ r.body = body
  /\ Len(r.templates) = 1
  /\ (r.templates[1].id # 0) <=> withId
  /\ url = "item" => r.id # 0

\* C10 as stated: the strategies are (1) PUT to the base path with a batch
\* of the one template carrying the id, (2) PUT to <base>/<id> with the bare
\* template, (3) PATCH to <base>/<id> with the bare template.
C10_BatchWithIdFirst ==
  \A p \in Procs : (variant = "chain" /\ lastReq[p].kind = "update") =>
    /\ lastReq[p].strat = 1 => StrategyIs(lastReq[p], "PUT", "base", "batch", TRUE)
    /\ lastReq[p].strat = 2 => StrategyIs(lastReq[p], "PUT", "item", "bare", FALSE)
    /\ lastReq[p].strat = 3 => StrategyIs(lastReq[p], "PATCH", "item", "bare", FALSE)

\* C10 amended: the three-strategy update tries (1) PUT to <base>/<id> with
\* the bare template, (2) PUT to the base path with a batch of the one
\* template, without its id, (3) PATCH to <base>/<id> with the bare template;
\* it starts at (1), goes one strategy further only after a strategy that was
\* not accepted, and stops at the first accepted answer, which is one the
\* client did not fail.
C10_ItemPutFirst ==
  /\ [](\A p \in Procs : (variant = "chain" /\ lastReq[p].kind = "update") =>
          /\ lastReq[p].strat \in 1..3
          /\ lastReq[p].strat = 1
               => StrategyIs(lastReq[p], "PUT", "item", "bare", FALSE)
          /\ lastReq[p].strat = 2
               => StrategyIs(lastReq[p], "PUT", "base", "batch", FALSE)
          /\ lastReq[p].strat = 3
               => StrategyIs(lastReq[p], "PATCH", "item", "bare", FALSE)
          /\ lastReq[p].outcome = "ok" => ~lastReq[p].thrown)
  /\ [][\A p \in Procs :
          (/\ variant = "chain"
           /\ lastReq'[p].kind = "update" /\ lastReq'[p] # lastReq[p])
            => \/ lastReq'[p].strat = 1
                    /\ (lastReq[p].kind \in {"update", "create"}
                          => lastReq[p].outcome = "ok")
               \/ /\ lastReq[p].kind = "update"
                  /\ lastReq[p].item = lastReq'[p].item
                  /\ lastReq[p].outcome # "ok"
                  /\ lastReq'[p].strat = lastReq[p].strat + 1]_vars

C10_Witness ==
  /\ variant = "chain" /\ lastReq[1].kind = "update"
  /\ lastReq[1].strat = 3 /\ lastReq[1].method = "PATCH"
  /\ lastReq[1].outcome = "ok"

NotFound == [thrown |-> TRUE, status |-> 404]

\* The update of the current item had its first two strategies fail with 404
\* and its third answered with a template-like object.
ThirdStrategyAnswers(p) ==
  /\ variant = "chain" /\ lastReq[p].kind = "update" /\ lastReq[p].strat = 3
  /\ Len(attempts[p]) >= 2
  /\ attempts[p][1] = NotFound /\ attempts[p][2] = NotFound
  /\ ~lastReq[p].thrown /\ lastReq[p].class = "template"

\* C11: when strategies 1 and 2 fail with 404 and strategy 3 returns a
\* recognizable success, the update succeeds after exactly three requests,
\* the third a PATCH, and the result of the item reports request.method PATCH.
C11_ThirdStrategySucceeds ==
  \A p \in Procs : ThirdStrategyAnswers(p) =>
    /\ lastReq[p].outcome = "ok" /\ pc[p] # "thrown" /\ failure[p] = NoFailure
    /\ Len(attempts[p]) = 3
    /\ lastReq[p].method = "PATCH"
    /\ Len(results[p]) = lastReq[p].item
    /\ results[p][lastReq[p].item].method = "PATCH"
    /\ results[p][lastReq[p].item].local = localTemplates[p][lastReq[p].item]

C11_Witness ==
  /\ ThirdStrategyAnswers(1) /\ lastReq[1].outcome = "ok"
  /\ Len(attempts[1]) = 3 /\ pc[1] = "done"
  /\ results[1][Len(results[1])].method = "PATCH"

\* The update of an item failed after all three strategies were attempted.
AllStrategiesFailed(p) ==
  /\ variant = "chain" /\ failure[p].kind = "update"
  /\ lastReq[p].strat = 3

\* C12: the aggregated error of an update whose strategies all failed holds
\* one entry per request issued, with the status of that request, including
\* the requests that were answered without a throw by a body of
\* unrecognizable shape.
C12_OneErrorPerAttempt ==
  \A p \in Procs : AllStrategiesFailed(p) =>
    /\ Len(attempts[p]) = 3
    /\ Len(failure[p].errors) = Len(attempts[p])
    /\ \A i \in 1..Len(failure[p].errors) :
         failure[p].errors[i].status = attempts[p][i].status

\* A write was answered, without a throw, by an object with an error, code
\* or message field.
ErrorBodyAnswered(p) ==
  /\ lastReq[p].kind \in {"bulk", "update", "create"}
  /\ ~lastReq[p].thrown /\ lastReq[p].class = "error"

\* C13: a write answered by a body with an error, code or message field is a
\* failure, whatever the status and the other fields of the body.
C13_ErrorBodyIsFailure ==
  \A p \in Procs : ErrorBodyAnswered(p) =>
    lastReq[p].outcome # "ok" /\ pc[p] # "done"

\* A single-item write was answered with a success status and an empty
\* object or no body at all.
EmptySuccess(p) ==
  /\ lastReq[p].kind \in {"update", "create"}
  /\ ~lastReq[p].thrown /\ lastReq[p].status < 400
  /\ lastReq[p].class \in {"absent", "emptyObject"}

\* C14: a single-item write (update or create) answered with success and an
\* empty or absent body is accepted, and the response the write returns is
\* the template that was sent.
C14_EmptyBodyConfirmsRequest ==
  \A p \in Procs : EmptySuccess(p) =>
    /\ lastReq[p].outcome = "ok"
    /\ SamePair(lastReq[p].response, lastReq[p].templates[1])
    /\ lastReq[p].response.details = lastReq[p].templates[1].details

\* The store holds, for every local template, an entry of its key with the
\* details of the last local template of that key.
HoldsLocal(s, locals) ==
  \A i \in 1..Len(locals) :
    (\A j \in (i + 1)..Len(locals) : ~SamePair(locals[j], locals[i]))
      => /\ s[<<locals[i].templateType, locals[i].languageTag>>] # NoEntry
         /\ s[<<locals[i].templateType, locals[i].languageTag>>].details
              = locals[i].details

\* Two apply-mode syncs of the same local templates have returned, the first
\* after a listing with every local key, the second after a listing that
\* was an array, and the service applied every write the code took for a
\* success.
SyncedTwice(p) ==
  /\ op[p] = "sync" /\ firstRun[p].done /\ pc[p] = "done"
  /\ ~unapplied[p]
  /\ hasRemoteIndex[p]

\* C15: of two consecutive apply-mode syncs with unchanged local templates,
\* the first against a listing that has every local key, both report
\* 'update' for every item and the remote store after the second run is the
\* store after the first.
C15_SecondSyncChangesNothing ==
  \A p \in Procs : SyncedTwice(p) =>
    /\ Len(firstRun[p].actions) = Len(localTemplates[p])
    /\ Len(results[p]) = Len(localTemplates[p])
    /\ \A i \in 1..Len(localTemplates[p]) :
         firstRun[p].actions[i] = "update" /\ results[p][i].action = "update"
    /\ store = firstRun[p].store
    /\ HoldsLocal(store, localTemplates[p])

\* The details of a remote template with subject and content trimmed of
\* trailing whitespace.
TrimmedDetails(d) ==
  [d EXCEPT !.subject = trimEnd(d.subject), !.content = trimEnd(d.content)]

\* A remote template with templateType, languageTag and details.
Exportable(t) ==
  t.templateType # "" /\ t.languageTag # "" /\ t.details # NoDetails

\* C16: after an export into an empty directory, loading the directory of
\* every remote template that has templateType, languageTag and details
\* yields a local template of the same key whose details are the remote
\* details (subject and content trimmed; contentType, replyTo and sendFrom
\* equal, an absent contentType included), which a following sync against
\* the same listing labels 'update'.
C16_ExportThenLoadIsIdentity ==
  \A p \in Procs : (op[p] = "export" /\ pc[p] = "done") =>
    \A j \in 1..Len(remoteTemplates[p]) :
      LET t      == remoteTemplates[p][j]
          kp     == <<t.templateType, t.languageTag>>
          loaded == loadLocalEmailTemplate(kp, fs.dirs[kp])
      IN  Exportable(t) =>
            /\ loaded.ok
            /\ loaded.details = TrimmedDetails(t.details)
            /\ ActionOf(TRUE, IndexFrom(remoteTemplates[p], 1, EmptyIndex), loaded)
                 = "update"

\* A dry run of sync that has made its listing request.
DryRunListed(p) == op[p] = "sync" /\ dryRun[p] /\ lastReq[p].kind = "list"

\* The client failed the listing GET with a status other than 404 and 405.
ListingBroke(p) ==
  /\ lastReq[p].kind = "list" /\ lastReq[p].thrown
  /\ lastReq[p].status \notin {404, 405}

\* C17: with dryRun, syncEmailTemplates never throws because of the remote
\* side: whatever the service answers, a listing GET failing with a status
\* other than 404/405 included, the call returns the plan.
C17_DryRunNeverThrows ==
  \A p \in Procs : DryRunListed(p) =>
    /\ pc[p] = "done"
    /\ Len(results[p]) = Len(localTemplates[p])

\* C17 (amended): with dryRun, syncEmailTemplates throws exactly when the
\* listing GET fails with a status other than 404/405, and then with the
\* "Failed to list email templates" error; for every other answer of the
\* service it returns the plan, one dry-run result per local template.
C17_DryRunThrowsOnlyOnListFailure ==
  \A p \in Procs : DryRunListed(p) =>
    IF ListingBroke(p)
      THEN pc[p] = "thrown" /\ failure[p] = ListFailed /\ results[p] = <<>>
      ELSE /\ pc[p] = "done" /\ failure[p] = NoFailure
           /\ Len(results[p]) = Len(localTemplates[p])
           /\ \A i \in 1..Len(results[p]) :
                /\ results[p][i].dryRun = "true"
                /\ results[p][i].method = ""
                /\ results[p][i].local = localTemplates[p][i]

C17_Witness ==
  /\ DryRunListed(1) /\ ListingBroke(1) /\ lastReq[1].status = 500
  /\ Len(localTemplates[1]) = 2
  /\ pc[1] = "thrown" /\ failure[1] = ListFailed

\* The result list has one populated result per local template.
FullyPopulated(p) ==
  /\ Len(results[p]) = Len(localTemplates[p])
  /\ \A i \in 1..Len(results[p]) :
       /\ results[p][i].local = localTemplates[p][i]
       /\ results[p][i].key = KeyOfLocal(localTemplates[p][i])
       /\ results[p][i].action \in {"create", "update", "upsert"}
       /\ IF dryRun[p]
            THEN results[p][i].dryRun = "true" /\ results[p][i].method = ""
            ELSE results[p][i].dryRun # "true" /\ results[p][i].method # ""

\* The writes of the items before the failed one are in the store: the
\* entry of each of their keys, unless the failed item has that key too,
\* has the details of the last of them with that key.
EarlierWritesRemain(p) ==
  LET locals == localTemplates[p]
      failed == failure[p].item
  IN  \A j \in 1..(failed - 1) :
        (\A k \in (j + 1)..failed : ~SamePair(locals[k], locals[j]))
          => /\ store[<<locals[j].templateType, locals[j].languageTag>>] # NoEntry
             /\ store[<<locals[j].templateType, locals[j].languageTag>>].details
                  = locals[j].details

\* Request b comes later in the loop than request a.
LaterRequest(a, b) ==
  b.item > a.item \/ (b.item = a.item /\ b.strat > a.strat)

\* C18: syncEmailTemplates either returns a populated result for every local
\* template or throws.  When a write fails the caller has the error and no
\* result list; no request is made again and none follows the throw (no
\* compensating write); a write changes only entries of keys of the
\* templates it carries, to their details; and the writes of the earlier
\* items, which the service applied, are still in the store.
C18_AllResultsOrError ==
  /\ [](\A p \in Procs : op[p] = "sync" =>
          /\ pc[p] = "done" => (FullyPopulated(p) /\ failure[p] = NoFailure)
          /\ failure[p] # NoFailure <=> pc[p] = "thrown"
          /\ (ItemFailed(p) /\ ~unapplied[p]) => EarlierWritesRemain(p))
  /\ [][\A p \in Procs : op[p] = "sync" =>
          /\ pc[p] \in {"thrown", "done"} =>
                (pc'[p] = pc[p] /\ store' = store /\ lastReq'[p] = lastReq[p]
                   /\ results'[p] = results[p])
          /\ (lastReq'[p] # lastReq[p] /\ lastReq[p].kind \in {"update", "create"})
                => LaterRequest(lastReq[p], lastReq'[p])
          /\ \A kp \in KeyPairs : store'[kp] # store[kp] =>
                \E i \in 1..Len(localTemplates[p]) :
                  /\ lastReq'[p].kind = "bulk" \/ lastReq'[p].item = i
                  /\ kp = <<localTemplates[p][i].templateType,
                            localTemplates[p][i].languageTag>>
                  /\ store'[kp].details = localTemplates[p][i].details]_vars

C18_Witness ==
  /\ op[1] = "sync" /\ ItemFailed(1) /\ failure[1].item = 2 /\ ~unapplied[1]
  /\ ~SamePair(localTemplates[1][1], localTemplates[1][2])
  /\ store[<<localTemplates[1][1].templateType,
             localTemplates[1][1].languageTag>>].details = DetailsA

\* exportEmailTemplates has returned.
Exported(p) == op[p] = "export" /\ pc[p] = "done"

\* The directories of the output root that exist.
WrittenDirs == {kp \in KeyPairs : fs.dirs[kp].exists}

\* C19: exportEmailTemplates returns a count equal to the number of entries
\* of the remote listing, whether or not each entry was written to disk, and
\* the resolved absolute output directory.
C19_CountIsListingLength ==
  \A p \in Procs : Exported(p) =>
    /\ exportCount[p] = Len(remoteTemplates[p])
    /\ exportCount[p] = Cardinality({kp \in KeyPairs : store[kp] # NoEntry})
    /\ returnedDir[p] = resolve(outDir[p])
    /\ returnedDir[p].absolute
    /\ \A i \in 1..Len(returnedDir[p].segments) :
         returnedDir[p].segments[i] \notin {".", ".."}
    /\ ~outDir[p].absolute => returnedDir[p].segments[1] = Cwd[1]
    /\ fs.root

C19_Witness ==
  /\ Exported(1) /\ exportCount[1] = 2
  /\ Cardinality(WrittenDirs) = 1
  /\ outDir[1] = [absolute |-> FALSE, segments |-> <<".", "out">>]
  /\ returnedDir[1] = [absolute |-> TRUE, segments |-> <<"home", "u", "out">>]

\* The key pairs of the listed entries that have all three fields.
CompleteKeys(p) ==
  {<<remoteTemplates[p][i].templateType, remoteTemplates[p][i].languageTag>> :
     i \in {j \in 1..Len(remoteTemplates[p]) : Exportable(remoteTemplates[p][j])}}

\* The positions of the listed entries that lack a field.
IncompleteAt(p) ==
  {i \in 1..Len(remoteTemplates[p]) : ~Exportable(remoteTemplates[p][i])}

\* The export has listed an entry that lacks a field.
ListedIncomplete(p) ==
  /\ op[p] = "export" /\ pc[p] \in {"export", "done", "thrown"}
  /\ IncompleteAt(p) # {}

\* No error is raised for an entry that lacks a field, no directory is made
\* for it, and the entries after it are exported.
SkippedSilently(p) ==
  /\ pc[p] # "thrown" /\ failure[p] = NoFailure
  /\ \A i \in 1..Len(remoteTemplates[p]) :
       LET t  == remoteTemplates[p][i]
           kp == <<t.templateType, t.languageTag>>
       IN  IF ~Exportable(t)
             THEN kp \in KeyPairs => ~fs.dirs[kp].exists
             ELSE (pc[p] = "done" \/ i < idx[p]) =>
                    fs.dirs[kp] = ExportOne(NoDir, t.details)
  /\ pc[p] = "done" => WrittenDirs = CompleteKeys(p)

\* C20: in exportEmailTemplates a remote entry missing templateType,
\* languageTag or details is skipped silently: no directory or file is
\* created for it, no error is raised, later entries are still exported, and
\* the skipped entry is not counted in the returned count.
C20_SkippedNotCounted ==
  \A p \in Procs : ListedIncomplete(p) =>
    /\ SkippedSilently(p)
    /\ pc[p] = "done" => exportCount[p] = Cardinality(CompleteKeys(p))

\* C20 (amended): such an entry is skipped silently: no directory or file
\* is created for it, no error is raised and later entries are still
\* exported; the returned count includes the skipped entry.
C20_SkippedButCounted ==
  \A p \in Procs : ListedIncomplete(p) =>
    /\ SkippedSilently(p)
    /\ pc[p] = "done" =>
         exportCount[p] = Cardinality(CompleteKeys(p)) + Cardinality(IncompleteAt(p))

C20_Witness ==
  /\ Exported(1) /\ Len(remoteTemplates[1]) = 2
  /\ ~Exportable(remoteTemplates[1][1]) /\ remoteTemplates[1][1].details = NoDetails
  /\ Exportable(remoteTemplates[1][2])
  /\ Cardinality(WrittenDirs) = 1
  /\ exportCount[1] = 2

\* What one round of the export loop has written for the entry t into
\* the directory that was `before`: subject.txt, one content file (the other
\* is not touched), and meta.json iff one of the three fields is truthy,
\* with exactly the truthy ones.
WrittenFor(before, after, t) ==
  LET d     == t.details
      plain == d.contentType = "text/plain"
  IN  /\ after.exists
      /\ after.subject = File(Append(trimEnd(d.subject), "\n"))
      /\ IF plain
           THEN after.txt = File(Append(trimEnd(d.content), "\n"))
                  /\ after.html = before.html
           ELSE after.html = File(Append(trimEnd(d.content), "\n"))
                  /\ after.txt = before.txt
      /\ IF d.replyTo # "" \/ d.sendFrom # "" \/ d.contentType # ""
           THEN after.meta = [exists |-> TRUE, replyTo |-> d.replyTo,
                              sendFrom |-> d.sendFrom,
                              contentType |-> d.contentType]
           ELSE after.meta = before.meta

\* C21: for every exported remote template, exportEmailTemplates writes
\* subject.txt and exactly one content file, content.txt iff
\* details.contentType is 'text/plain' and content.html otherwise, and
\* writes meta.json iff at least one of replyTo, sendFrom, contentType is
\* truthy, containing exactly the truthy ones; it writes nothing else.
C21_FilesOfAnExport ==
  [][\A p \in Procs : (op[p] = "export" /\ pc[p] = "export") =>
       LET t  == remoteTemplates[p][idx[p]]
           kp == <<t.templateType, t.languageTag>>
       IN  IF Exportable(t)
             THEN /\ WrittenFor(fs.dirs[kp], fs'.dirs[kp], t)
                  /\ \A other \in KeyPairs \ {kp} : fs'.dirs[other] = fs.dirs[other]
             ELSE fs' = fs]_vars

C21_Witness ==
  /\ Exported(1) /\ ~firstRun[1].done
  /\ \E kp \in KeyPairs :
       /\ fs.dirs[kp].txt.exists /\ ~fs.dirs[kp].html.exists
       /\ fs.dirs[kp].meta.contentType = "text/plain"
       /\ fs.dirs[kp].meta.sendFrom = ""
  /\ \E kp \in KeyPairs :
       /\ fs.dirs[kp].html.exists /\ ~fs.dirs[kp].txt.exists
       /\ ~fs.dirs[kp].meta.exists

\* C30: after any sequence of exportEmailTemplates calls into the same
\* output directory, the remote contentType possibly changing between the
\* calls, every exported template directory holds exactly one of
\* content.html / content.txt, and loadLocalEmailTemplates on it returns the
\* content written by the most recent export.
C30_LatestContentAfterExports ==
  \A p \in Procs : Exported(p) =>
    /\ \A kp \in WrittenDirs :
         fs.dirs[kp].html.exists # fs.dirs[kp].txt.exists
    /\ \A i \in 1..Len(remoteTemplates[p]) :
         LET t  == remoteTemplates[p][i]
             kp == <<t.templateType, t.languageTag>>
         IN  Exportable(t) =>
               /\ loadLocalEmailTemplate(kp, fs.dirs[kp]).ok
               /\ loadLocalEmailTemplate(kp, fs.dirs[kp]).details.content
                    = trimEnd(t.details.content)

\* loadLocalEmailTemplates was called and has returned or thrown.
LoadEnded(p) == op[p] = "load" /\ pc[p] \in {"done", "thrown"}

\* The directories the load looks into.
Looked == {kp \in KeyPairs : fs.dirs[kp].exists}

\* A directory the load accepts according to the claim.
WellFormed(dir) ==
  dir.subject.exists /\ (dir.html.exists # dir.txt.exists)

\* C22: loadLocalEmailTemplates accepts a template directory only when
\* subject.txt exists and exactly one of content.html / content.txt exists:
\* a missing subject.txt or the absence of both content files throws an
\* error naming the path and no template list is returned, and a directory
\* holding only content.txt yields contentType 'text/plain' unless meta.json
\* overrides it.
C22_LoadAcceptsWellFormedOnly ==
  \A p \in Procs : (LoadEnded(p) /\ fs.root) =>
    /\ pc[p] = "done" <=> \A kp \in Looked : WellFormed(fs.dirs[kp])
    /\ pc[p] = "thrown" =>
         /\ localTemplates[p] = <<>>
         /\ failure[p].kind \in {"missingSubject", "missingContent"}
         /\ \E kp \in Looked :
              /\ KeyOrder[kp] = failure[p].item
              /\ ~WellFormed(fs.dirs[kp])
    /\ pc[p] = "done" =>
         \A i \in 1..Len(localTemplates[p]) :
           LET t   == localTemplates[p][i]
               dir == fs.dirs[<<t.templateType, t.languageTag>>]
           IN  (dir.txt.exists /\ ~dir.html.exists) =>
                 t.details.contentType =
                   IF dir.meta.contentType # "" THEN dir.meta.contentType
                   ELSE "text/plain"

\* The configuration errors: LOGTO_ENDPOINT, LOGTO_M2M_CLIENT_ID or
\* LOGTO_M2M_CLIENT_SECRET missing, or no LOGTO_TENANT_ID with an endpoint
\* that is not of logto.app.
ConfigurationError ==
  /\ cli.command # "none"
  /\ \/ cli.env.endpoint = ""
     \/ ~cli.env.clientId
     \/ ~cli.env.clientSecret
     \/ (cli.env.endpoint = "custom" /\ ~cli.env.tenantId)

\* No request has been made: no token request, no GET, PUT or PATCH.
NoNetworkCall ==
  /\ cli.tokens = 0
  /\ \A p \in Procs : lastReq[p] = NoRequest

\* C23: in the CLI a configuration error ends the run with exit code 1
\* before any network call (token acquisition, GET or PUT), for every
\* command.
C23_ConfigErrorBeforeNetwork ==
  /\ [](ConfigurationError =>
          /\ NoNetworkCall
          /\ cli.pc \in {"config", "exit"}
          /\ cli.pc = "exit" => cli.exit = 1
          /\ \A p \in Procs : op[p] = "none")
  /\ [][(ConfigurationError /\ cli.pc = "config") =>
          (cli'.pc = "exit" /\ cli'.exit = 1 /\ store' = store /\ fs' = fs)]_vars

C23_Witness ==
  /\ cli.command = "export" /\ cli.pc = "exit" /\ cli.exit = 1
  /\ cli.env = [endpoint |-> "custom", tenantId |-> FALSE, clientId |-> TRUE,
                clientSecret |-> TRUE]
  /\ NoNetworkCall

\* The sync command found no local template.
NothingToSync ==
  /\ cli.command = "sync" /\ op[1] = "load" /\ pc[1] = "done"
  /\ localTemplates[1] = <<>>
  /\ cli.pc = "exit"

\* syncEmailTemplates of emailTemplatesApi.js was called without cli.js, in
\* apply mode with an empty list, and its listing did not throw.
EmptyDirectSync(p) ==
  /\ cli = NoCli /\ op[p] = "sync" /\ ~dryRun[p] /\ localTemplates[p] = <<>>
  /\ pc[p] \in {"done", "thrown"} /\ failure[p] # ListFailed

\* C27: the sync command never sends a bulk PUT whose templates array is
\* empty: when the local store yields no templates (empty directory or
\* filters that match nothing) the CLI exits with code 0 before calling
\* syncEmailTemplates, so neither the listing GET nor any write reaches the
\* template endpoint; syncEmailTemplates itself, called in apply mode with an
\* empty list, does issue a PUT with an empty templates array.
C27_CliNeverSyncsNothing ==
  /\ cli.command # "none" =>
       /\ \A p \in Procs : lastReq[p].kind = "bulk" => lastReq[p].templates # <<>>
       /\ \A p \in Procs : op[p] = "sync" => localTemplates[p] # <<>>
       /\ (cli.pc = "exit" /\ op[1] = "load" /\ pc[1] = "done"
             /\ localTemplates[1] = <<>>)
            => (cli.exit = 0 /\ lastReq[1] = NoRequest)
       /\ (cli.command = "sync" /\ cli.pc = "load" /\ pc[1] = "done"
             /\ localTemplates[1] = <<>>)
            => lastReq[1] = NoRequest
  /\ \A p \in Procs : EmptyDirectSync(p) =>
       /\ lastReq[p].kind = "bulk" /\ lastReq[p].method = "PUT"
       /\ lastReq[p].body = "batch" /\ lastReq[p].templates = <<>>

C27_Witness ==
  /\ NothingToSync /\ cli.exit = 0
  /\ cli.languages = Filter({"fr"})
  /\ \E kp \in KeyPairs : fs.dirs[kp].exists
  /\ cli.tokens = 1 /\ lastReq[1] = NoRequest

\* The step is a request of the create path for the current item that
\* succeeds with a response carrying an id.
CreatedWithId(p) ==
  /\ op[p] = "sync" /\ pc[p] = "create"
  /\ lastReq'[p] # lastReq[p]
  /\ lastReq'[p].outcome = "ok" /\ lastReq'[p].response.id # 0

\* C24: in apply mode, after a create-path write succeeds with a response
\* carrying an id, the in-memory remote index holds that response under the
\* item's key, so a later local template of the same key in the same run is
\* labelled 'update' and goes through the update chain with that id rather
\* than the create path.
C24_CreatedIsSeenLater ==
  [][\A p \in Procs : CreatedWithId(p) =>
       LET locals == localTemplates[p]
           i      == idx[p]
       IN  /\ remoteIndex'[p][KeyOfLocal(locals[i])] = lastReq'[p].response
           /\ (i < Len(locals) /\ SamePair(locals[i + 1], locals[i])) =>
                /\ pc'[p] = "update"
                /\ ActionOf(hasRemoteIndex'[p], remoteIndex'[p], locals[i + 1])
                     = "update"
                /\ Existing(hasRemoteIndex'[p], remoteIndex'[p], locals[i + 1]).id
                     = lastReq'[p].response.id]_vars

\* A per-item apply run at a request of its loop.
InLoop(p) == op[p] = "sync" /\ pc[p] \in {"update", "create"}

\* The remote entry the index has for the current item, if any.
Matched(p) ==
  IF hasRemoteIndex[p]
    THEN remoteIndex[p][makeKey(localTemplates[p][idx[p]].templateType,
                                localTemplates[p][idx[p]].languageTag)]
    ELSE NoEntry

\* C28: in per-item apply mode the update chain is invoked exactly when the
\* matched remote entry has a truthy id; for a local template whose key
\* matches a remote entry without an id the create path (batch PUT to the
\* base path) is used while the result still reports action 'update'.
C28_UpdateChainOnlyWithId ==
  /\ [](\A p \in Procs : InLoop(p) =>
          /\ variant # "bulk" /\ ~dryRun[p]
          /\ pc[p] = "update" <=> Matched(p).id # 0)
  /\ [][\A p \in Procs : (InLoop(p) /\ lastReq'[p] # lastReq[p]) =>
          /\ lastReq'[p].kind = pc[p]
          /\ lastReq'[p].item = idx[p]
          /\ IF Matched(p).id # 0
               THEN /\ lastReq'[p].kind = "update"
                    /\ lastReq'[p].url = "item" => lastReq'[p].id = Matched(p).id
                    /\ (variant # "single" /\ lastReq'[p].strat = 1)
                         => lastReq'[p].url = "item"
                    /\ variant = "single" =>
                         lastReq'[p].templates[1].id = Matched(p).id
               ELSE /\ lastReq'[p].kind = "create"
                    /\ lastReq'[p].method = "PUT" /\ lastReq'[p].url = "base"
                    /\ lastReq'[p].id = 0
                    /\ lastReq'[p].strat = 1 => lastReq'[p].body = "batch"
          /\ (Matched(p) # NoEntry /\ Matched(p).id = 0
                /\ lastReq'[p].outcome = "ok")
               => /\ Len(results'[p]) = idx[p]
                  /\ results'[p][idx[p]].action = "update"]_vars

C28_Witness ==
  /\ op[1] = "sync" /\ pc[1] = "done" /\ variant = "chain"
  /\ Len(localTemplates[1]) = 1
  /\ results[1][1].action = "update"
  /\ lastReq[1].kind = "create" /\ lastReq[1].body = "batch"
  /\ lastReq[1].url = "base" /\ lastReq[1].id = 0
  /\ remoteIndex[1][results[1][1].key] # NoEntry
  /\ remoteIndex[1][results[1][1].key].id = 0

\* The step is a request of invocation p.
Requests(p) == lastReq'[p] # lastReq[p] /\ lastReq'[p].kind # "none"

\* C25: within one sync invocation requests are strictly sequential: an
\* invocation is suspended at one request at a time, the first write is
\* issued only after the listing GET has completed, and the writes for
\* local template i+1 are issued only after every request for local template
\* i has completed, in load order.
C25_RequestsAreSequential ==
  /\ [][\A p \in Procs : (op[p] = "sync" /\ Requests(p)) =>
          LET before == lastReq[p]
              after  == lastReq'[p]
          IN  /\ after.kind = IF pc[p] = "list" THEN "list" ELSE pc[p]
              /\ before.kind = "none" <=> after.kind = "list"
              /\ after.kind \in {"update", "create"} =>
                   /\ after.item = idx[p]
                   /\ \/ /\ before.kind = "list"
                         /\ after.item = 1 /\ after.strat = 1
                      \/ /\ before.kind \in {"update", "create"}
                         /\ before.outcome = "ok"
                         /\ after.item = before.item + 1 /\ after.strat = 1
                      \/ /\ before.kind = after.kind
                         /\ before.outcome = "next"
                         /\ after.item = before.item
                         /\ after.strat = before.strat + 1
              /\ after.kind = "bulk" => before.kind = "list"]_vars
  /\ [](\A p \in Procs :
          (op[p] = "sync" /\ pc[p] = "done" /\ ~dryRun[p] /\ variant # "bulk"
             /\ localTemplates[p] # <<>>)
            => (lastReq[p].item = Len(localTemplates[p])
                  /\ lastReq[p].outcome = "ok"))

C25_Witness ==
  /\ op[1] = "sync" /\ pc[1] = "done" /\ variant = "chain"
  /\ Len(localTemplates[1]) = 2
  /\ lastReq[1].kind = "update" /\ lastReq[1].item = 2 /\ lastReq[1].strat = 3
  /\ Len(results[1]) = 2

\* The listing GET is the latest request of the invocation.
JustListed(p) == pc[p] # "list" /\ lastReq[p].kind = "list"

\* The GET was answered, not thrown, with an array body.
ArrayAnswer(p) ==
  /\ ~lastReq[p].thrown
  /\ lastReq[p].class \in {"emptyArray", "templates", "otherArray"}

\* The GET threw 404/405, or was answered with a body that is no array.
NullAnswer(p) ==
  \/ lastReq[p].thrown /\ lastReq[p].status \in {404, 405}
  \/ ~lastReq[p].thrown /\ ~ArrayAnswer(p)

\* An entry of the listing with both fields of the key.
Keyed(t) == t.templateType # "" /\ t.languageTag # ""

\* The listing holds a keyed entry of the template's pair.
ListingHasKeyed(p, local) ==
  \E j \in 1..Len(remoteTemplates[p]) :
    Keyed(remoteTemplates[p][j]) /\ SamePair(remoteTemplates[p][j], local)

\* C29: listEmailTemplates yields an array only when the GET succeeds with
\* an array body; an answered GET whose body is absent or no array yields
\* null like a 404/405, so that sync labels every item 'upsert' and export
\* and list fail with the listing-unavailable error; the index holds only
\* listed entries that have templateType and languageTag, and an entry
\* lacking one of them matches no local template.
C29_ArrayOnlyFromArrayBody ==
  \A p \in Procs :
    /\ (op[p] = "sync" /\ ~hasRemoteIndex[p]) =>
         \A i \in 1..Len(results[p]) : results[p][i].action = "upsert"
    /\ JustListed(p) =>
         /\ NullAnswer(p) =>
              IF op[p] = "sync"
                THEN pc[p] # "thrown" /\ ~hasRemoteIndex[p]
                ELSE pc[p] = "thrown" /\ failure[p] = ListUnavailable
         /\ ArrayAnswer(p) =>
              /\ pc[p] # "thrown"
              /\ failure[p] = NoFailure
              /\ op[p] = "sync" => hasRemoteIndex[p]
         /\ (~NullAnswer(p) /\ ~ArrayAnswer(p)) =>
              pc[p] = "thrown" /\ failure[p] = ListFailed
         /\ (op[p] = "sync" /\ hasRemoteIndex[p]) =>
              /\ \A k \in Keys :
                   remoteIndex[p][k] # NoEntry =>
                     /\ Keyed(remoteIndex[p][k])
                     /\ makeKey(remoteIndex[p][k].templateType,
                                remoteIndex[p][k].languageTag) = k
                     /\ \E j \in 1..Len(remoteTemplates[p]) :
                          remoteTemplates[p][j] = remoteIndex[p][k]
              /\ \A i \in 1..Len(localTemplates[p]) :
                   (Existing(TRUE, remoteIndex[p], localTemplates[p][i]) # NoEntry)
                     <=> ListingHasKeyed(p, localTemplates[p][i])
              /\ \A i \in 1..Len(results[p]) :
                   results[p][i].action =
                     IF ListingHasKeyed(p, results[p][i].local)
                       THEN "update" ELSE "create"

\* A dry run whose listing held an entry without templateType or
\* languageTag for a stored pair: the local template of that pair is
\* planned as a create.
C29_Witness ==
  \E p \in Procs :
    /\ op[p] = "sync" /\ JustListed(p) /\ hasRemoteIndex[p]
    /\ \E j \in 1..Len(remoteTemplates[p]) : ~Keyed(remoteTemplates[p][j])
    /\ \E i \in 1..Len(results[p]) :
         /\ results[p][i].action = "create"
         /\ store[<<results[p][i].local.templateType,
                    results[p][i].local.languageTag>>] # NoEntry

\* The invocation took a step that sent a write.
Wrote(p) == lastReq'[p] # lastReq[p] /\ lastReq'[p].method # "GET"

\* The service answered the write with a success status and no error body.
Accepted(r) == ~r.thrown /\ r.status < 400 /\ r.class # "error"

\* The store holds the details the request carried, for every template of
\* a request to the base path and for the entry of the id of a request to
\* an item path.
Holds(st, req) ==
  IF req.url = "item"
    THEN \A kp \in KeyPairs :
           (st[kp] # NoEntry /\ st[kp].id = req.id) =>
             st[kp].details = req.templates[1].details
    ELSE \A i \in 1..Len(req.templates) :
           st[<<req.templates[i].templateType,
                req.templates[i].languageTag>>].details = req.templates[i].details

\* The pair of the one local template of an invocation.
PairOf(p) ==
  <<localTemplates[p][1].templateType, localTemplates[p][1].languageTag>>

C15_Witness ==
  /\ SyncedTwice(1) /\ variant = "chain" /\ Len(localTemplates[1]) = 2
  /\ lastReq[1].kind = "update" /\ lastReq[1].outcome = "ok"
  /\ \E kp \in KeyPairs : store[kp].details = DetailsA
  /\ \E kp \in KeyPairs : store[kp].details = DetailsB

====
